---- MODULE Spec2Model ----
(***************************************************************************)
(* PropLedger-Pro: the financial derivation engine                         *)
(* (src/services/financeEngine.ts) over the data model of src/types.ts.    *)
(*                                                                         *)
(* Dates.  A JavaScript Date is an instant that the engine reads through   *)
(* its local-time fields (getFullYear, getMonth, setDate, setMonth) and    *)
(* compares through getTime.  Here an instant is the integer               *)
(*     ((month * 31) + (day - 1)) * 24 + hour                              *)
(* of its LOCAL wall-clock reading, month being the number of months since *)
(* January of BaseYear.  The host's zone is a fixed offset of tz hours     *)
(* from UTC, so the order of these integers is the order of getTime.       *)
(* A date-only string "YYYY-MM-DD" (what <input type="date"> and the seed  *)
(* data store) is parsed by `new Date(s)` as midnight UTC, i.e. tz hours   *)
(* after (or before) local midnight.  Amounts are in thousands of pesos.   *)
(***************************************************************************)
EXTENDS Integers, Sequences, FiniteSets, TLC

VARIABLES
    tz,          \* the host's offset from UTC in hours
    now,         \* the reading of `new Date()` during the call
    tenant,      \* the Tenant passed to the engine
    property,    \* the Property passed to the engine
    payments,    \* the Payment[] passed to the engine
    payments2,   \* the Payment[] of a second call on the same tenant
    ledger,      \* the result of generateLedger(tenant, payments)
    ledger2,     \* the result of generateLedger(tenant, payments2)
    moveOut,     \* the result of calculateMoveOutFinancials
    propFin,     \* the result of calculatePropertyFinancials
    pc,          \* which engine function has returned
    propFin2,    \* the result of calculatePropertyFinancials on payments2
    tenants,     \* the Tenant[] of the application state
    properties,  \* the Property[] of the application state
    year,        \* the year passed to generateIncomeStatement
    metrics,     \* the result of calculateMetrics
    chartData,   \* the result of generateChartData
    statement,   \* the result of generateIncomeStatement
    summary,     \* the result of generateFinancialSummary
    expirations, \* the result of getUpcomingExpirations
    outputs,     \* what the engine returned when the views were rendered
    outputs2,    \* what it returned when they were rendered again
    state,       \* the AppState held by the AppProvider
    localStorage, \* the snapshot stored under the storage key
    formData,    \* the form a view's submit handler was given
    saveFailed,  \* setItem throws: saveState logs 'Failed to save state'
    dateNow      \* the reading of Date.now() that new ids are made of

\* the state of the portfolio-wide functions and of the second snapshot
reportVars == <<propFin2, tenants, properties, year, metrics, chartData,
                statement, summary, expirations>>

\* the application around the engine and the two renderings of its views
appVars == <<outputs, outputs2, state, localStorage, formData, saveFailed,
             dateNow>>

vars == <<tz, now, tenant, property, payments, payments2, ledger, ledger2,
          moveOut, propFin, pc, reportVars, appVars>>

----------------------------------------------------------------------------
(* Bounds *)

MaxMonth == 2

MaxPayments == 2

BaseYear == 2024

----------------------------------------------------------------------------
(* The calendar behind the Date object *)

Min(a, b) == IF a <= b THEN a ELSE b

Max(a, b) == IF a >= b THEN a ELSE b

YearOf(m) == BaseYear + (m \div 12)

IsLeap(y) == (y % 4 = 0 /\ y % 100 # 0) \/ y % 400 = 0

\* new Date(year, month + 1, 0).getDate()
DaysInMonth(m) ==
    LET k == m % 12
    IN  IF k = 1 THEN (IF IsLeap(YearOf(m)) THEN 29 ELSE 28)
        ELSE IF k \in {3, 5, 8, 10} THEN 30 ELSE 31

\* new Date(year, month, day) at the given local hour
MkDate(m, d, h) == ((m * 31) + (d - 1)) * 24 + h

MonthOf(t) == t \div (31 * 24)

DayOf(t) == ((t \div 24) % 31) + 1

HourOf(t) == t % 24

\* the instant k hours later (k < 0: earlier), for -24 < k < 24
ShiftHours(t, k) ==
    LET m == MonthOf(t)
        d == DayOf(t)
        h == HourOf(t) + k
    IN  IF h < 0
          THEN IF d > 1 THEN MkDate(m, d - 1, h + 24)
               ELSE MkDate(m - 1, DaysInMonth(m - 1), h + 24)
        ELSE IF h >= 24
          THEN IF d < DaysInMonth(m) THEN MkDate(m, d + 1, h - 24)
               ELSE MkDate(m + 1, 1, h - 24)
        ELSE MkDate(m, d, h)

\* a date-only string "YYYY-MM-DD": the civil date it names
DateString(m, d) == [m |-> m, d |-> d]

\* an absent (or empty) optional date
NoDate == [m |-> 0, d |-> 0]

\* new Date("YYYY-MM-DD"): midnight UTC of that day, read in local time
ParseDateString(s) == ShiftHours(MkDate(s.m, s.d, 0), tz)

\* isNaN(new Date(s).getTime()): an absent or empty string is no date
IsInvalidDate(s) == s = NoDate

\* date.toISOString(): the UTC reading of a local instant
ToISOString(t) == ShiftHours(t, 0 - tz)

\* new Date(isoString) of a full ISO timestamp ending in Z
ParseISOString(u) == ShiftHours(u, tz)

\* getMonthKey: `${d.getFullYear()}-${String(d.getMonth() + 1).padStart(2, '0')}`
\* as the pair <<year, month 1..12>>; the zero-padded strings order as the pairs do
getMonthKey(t) == <<YearOf(MonthOf(t)), (MonthOf(t) % 12) + 1>>

KeyLess(a, b) == a[1] < b[1] \/ (a[1] = b[1] /\ a[2] < b[2])

----------------------------------------------------------------------------
(* generateLedger *)

\* (mutant) the reducer drops its accumulator: (sum, p) => p.amount
SumAmountsLast(ps) == IF ps = <<>> THEN 0 ELSE ps[Len(ps)].amount

RECURSIVE SumAmounts(_)
\* ps.reduce((sum, p) => sum + p.amount, 0)
SumAmounts(ps) ==
    IF ps = <<>> THEN 0 ELSE ps[1].amount + SumAmounts(Tail(ps))

Reverse(s) == [i \in 1..Len(s) |-> s[Len(s) + 1 - i]]

\* the stable insertion of p into a list already ascending by date
RECURSIVE InsertByDate(_, _)
InsertByDate(p, s) ==
    IF s = <<>> THEN <<p>>
    ELSE IF ParseDateString(p.date) < ParseDateString(s[1].date)
         THEN <<p>> \o s
         ELSE <<s[1]>> \o InsertByDate(p, Tail(s))

\* .sort((a, b) => new Date(a.date).getTime() - new Date(b.date).getTime())
RECURSIVE SortByDate(_)
SortByDate(s) ==
    IF s = <<>> THEN <<>>
    ELSE InsertByDate(s[Len(s)], SortByDate(SubSeq(s, 1, Len(s) - 1)))

\* (mutant) the rent of every tenant funds the ledger
IsAnyRent(t, p) == p.type = "Rent"

\* (mutant) every payment of the tenant funds the ledger, whatever its type
IsTenantPayment(t, p) == p.tenantId = t.id

\* p.tenantId === tenant.id && p.type === PaymentType.RENT
IsTenantRent(t, p) == p.tenantId = t.id /\ p.type = "Rent"

tenantRentPayments(t, ps) ==
    SortByDate(SelectSeq(ps, LAMBDA p : IsTenantRent(t, p)))

totalPaidPool(t, ps) == SumAmounts(tenantRentPayments(t, ps))

\* const start = new Date(tenant.leaseStart)
LeaseStartDate(t) == ParseDateString(t.leaseStart)

\* tenant.leaseEnd ? new Date(tenant.leaseEnd) : null
HasLeaseEnd(t) == t.leaseEnd # NoDate

\* (mutant) a past tenant's horizon is the month after leaseEnd's month
endPointerFollowing(t, nowD) ==
    IF t.status = "past" /\ HasLeaseEnd(t)
      THEN MkDate(MonthOf(ParseDateString(t.leaseEnd)) + 1, 1, 0)
      ELSE MkDate(MonthOf(nowD) + 1, 1, 0)

endPointer(t, nowD) ==
    IF t.status = "past" /\ HasLeaseEnd(t)
      THEN MkDate(MonthOf(ParseDateString(t.leaseEnd)), 1, 0)
      ELSE MkDate(MonthOf(nowD) + 1, 1, 0)

\* const currentPointer = new Date(start); currentPointer.setDate(1)
FirstPointer(t) ==
    MkDate(MonthOf(LeaseStartDate(t)), 1, HourOf(LeaseStartDate(t)))

\* currentPointer.setMonth(currentPointer.getMonth() + 1), the day being 1
NextPointer(ptr) == MkDate(MonthOf(ptr) + 1, 1, HourOf(ptr))

\* the object pushed for the month of currentPointer
NewInstallment(t, ptr) ==
    LET m   == MonthOf(ptr)
        day == Min(t.rentDueDay, DaysInMonth(m))
    IN  [monthKey   |-> getMonthKey(ptr),
         dueDate    |-> ToISOString(MkDate(m, day, 0)),
         amountDue  |-> t.rentAmount,
         amountPaid |-> 0,
         status     |-> "pending",
         tenantName |-> t.name,
         propertyId |-> t.propertyId]

\* (mutant) the condition is tested after the body: do { ... } while (...)
RECURSIVE ProjectAtLeastOnce(_, _, _)
ProjectAtLeastOnce(t, ptr, endPtr) ==
    <<NewInstallment(t, ptr)>>
      \o (IF NextPointer(ptr) <= endPtr
            THEN ProjectAtLeastOnce(t, NextPointer(ptr), endPtr)
            ELSE <<>>)

\* while (currentPointer <= endPointer) { ledger.push(...); setMonth(+1) }
RECURSIVE ProjectObligations(_, _, _)
ProjectObligations(t, ptr, endPtr) ==
    IF ptr <= endPtr
      THEN <<NewInstallment(t, ptr)>> \o ProjectObligations(t, NextPointer(ptr), endPtr)
      ELSE <<>>

\* (mutant) the pool is applied to the newest installment first
RECURSIVE ApplyPoolFromNewest(_, _)
ApplyPoolFromNewest(l, pool) ==
    IF l = <<>> THEN <<>>
    ELSE IF pool <= 0 THEN l
    ELSE LET n == Len(l)
             amountToApply == Min(l[n].amountDue, pool)
         IN  ApplyPoolFromNewest(SubSeq(l, 1, n - 1), pool - amountToApply)
               \o <<[l[n] EXCEPT !.amountPaid = @ + amountToApply]>>

\* (mutant) the whole pool goes to an installment, without Math.min
RECURSIVE ApplyPoolUnclamped(_, _)
ApplyPoolUnclamped(l, pool) ==
    IF l = <<>> THEN <<>>
    ELSE IF pool <= 0 THEN l
    ELSE <<[l[1] EXCEPT !.amountPaid = @ + pool]>> \o Tail(l)

\* for (const installment of ledger) { if (totalPaidPool <= 0) break; ... }
RECURSIVE ApplyPool(_, _)
ApplyPool(l, pool) ==
    IF l = <<>> THEN <<>>
    ELSE IF pool <= 0 THEN l
    ELSE LET amountToApply == Min(l[1].amountDue, pool)
         IN  <<[l[1] EXCEPT !.amountPaid = @ + amountToApply]>>
               \o ApplyPool(Tail(l), pool - amountToApply)

\* (mutant) paid only when more than the amount due has been paid
DeriveStatusStrict(inst, t, nowD) ==
    IF inst.amountPaid > inst.amountDue THEN "paid"
    ELSE IF inst.amountPaid > 0 THEN "partial"
    ELSE IF nowD > ParseISOString(inst.dueDate) \/ t.status = "past" THEN "overdue"
    ELSE "pending"

\* the status the forEach assigns to one installment
DeriveStatus(inst, t, nowD) ==
    IF inst.amountPaid >= inst.amountDue THEN "paid"
    ELSE IF inst.amountPaid > 0 THEN "partial"
    ELSE IF nowD > ParseISOString(inst.dueDate) \/ t.status = "past" THEN "overdue"
    ELSE "pending"

SetStatuses(l, t, nowD) ==
    [i \in 1..Len(l) |-> [l[i] EXCEPT !.status = DeriveStatus(l[i], t, nowD)]]

\* the installments the while loop pushes; with an invalid leaseStart the
\* pointer is an Invalid Date and `currentPointer <= endPointer` is false
obligationsOf(t, nowD) ==
    IF IsInvalidDate(t.leaseStart) THEN <<>>
    ELSE ProjectObligations(t, FirstPointer(t), endPointer(t, nowD))

\* the ledger in chronological order, before `return ledger.reverse()`
ChronologicalLedger(t, ps, nowD) ==
    SetStatuses(ApplyPool(obligationsOf(t, nowD), totalPaidPool(t, ps)), t, nowD)

generateLedgerAt(t, ps, nowD) == Reverse(ChronologicalLedger(t, ps, nowD))

generateLedger(t, ps) == generateLedgerAt(t, ps, now)

----------------------------------------------------------------------------
(* calculateMoveOutFinancials *)

\* (mutant) every deposit is held for the tenant, whoever paid it
IsAnyDeposit(t, p) == p.type = "Deposit"

\* p.tenantId === tenant.id && p.type === PaymentType.DEPOSIT
IsTenantDeposit(t, p) == p.tenantId = t.id /\ p.type = "Deposit"

depositsOf(t, ps) == SumAmounts(SelectSeq(ps, LAMBDA p : IsTenantDeposit(t, p)))

RECURSIVE unpaidRentOf(_)
\* ledger.reduce((sum, row) => sum + (row.amountDue - row.amountPaid), 0)
unpaidRentOf(l) ==
    IF l = <<>> THEN 0
    ELSE (l[1].amountDue - l[1].amountPaid) + unpaidRentOf(Tail(l))

netRefundableOf(deposits, unpaidRent) == deposits - unpaidRent

calculateMoveOutFinancials(t, ps) ==
    LET deposits   == depositsOf(t, ps)
        unpaidRent == unpaidRentOf(generateLedger(t, ps))
    IN  [depositHeld   |-> deposits,
         unpaidRent    |-> unpaidRent,
         netRefundable |-> netRefundableOf(deposits, unpaidRent)]

----------------------------------------------------------------------------
(* calculatePropertyFinancials.  A quotient is the exact fraction <<n, d>>
   in lowest terms with d > 0. *)

Abs(x) == IF x < 0 THEN 0 - x ELSE x

RECURSIVE GCD(_, _)
GCD(a, b) == IF b = 0 THEN a ELSE GCD(b, a % b)

\* n / d for d > 0
Rat(n, d) == LET g == GCD(Abs(n), d) IN <<n \div g, d \div g>>

RatLeq(a, b) == a[1] * b[2] <= b[1] * a[2]

\* Math.min(a, b) on quotients
RatMin(a, b) == IF RatLeq(a, b) THEN a ELSE b

\* an optional number: <<>> when the field is absent, <<v>> otherwise;
\* `x || y` takes y when x is absent or 0
OrElse(x, y) == IF x = <<>> THEN y ELSE IF x[1] = 0 THEN y ELSE x[1]

\* payments.filter(p => p.propertyId === property.id)
propPayments(prop, ps) == SelectSeq(ps, LAMBDA p : p.propertyId = prop.id)

\* (mutant) the equity of every property is counted
equityPaymentsOfAll(prop, ps) ==
    SumAmounts(SelectSeq(ps, LAMBDA p : p.type = "Equity"))

equityPaymentsOf(prop, ps) ==
    SumAmounts(SelectSeq(propPayments(prop, ps), LAMBDA p : p.type = "Equity"))

totalEquityPaidOf(prop, ps) ==
    OrElse(prop.downPayment, 0) + equityPaymentsOf(prop, ps)

remainingBalanceOf(prop, total) == Max(0, prop.purchasePrice - total)

rawPercentOf(prop, total) ==
    IF prop.purchasePrice > 0 THEN Rat(total * 100, prop.purchasePrice)
    ELSE Rat(0, 1)

\* (mutant) the ratio without Math.min(100, ...)
percentPaidUncapped(prop, total) == rawPercentOf(prop, total)

percentPaidOf(prop, total) == RatMin(Rat(100, 1), rawPercentOf(prop, total))

totalRevenueOf(prop, ps) ==
    SumAmounts(SelectSeq(propPayments(prop, ps),
                         LAMBDA p : p.type \in {"Rent", "Deposit", "Late Fee"}))

totalExpensesOf(prop, ps) ==
    SumAmounts(SelectSeq(propPayments(prop, ps), LAMBDA p : p.type = "Expense"))

\* Math.max(1, (now.getFullYear() - purchaseDate.getFullYear()) * 12
\*               + (now.getMonth() - purchaseDate.getMonth()))
monthsOwnedOf(prop, nowD) ==
    Max(1, MonthOf(nowD) - MonthOf(ParseDateString(prop.purchaseDate)))

\* (mutant) the personal-use branch is not taken: every property gets the
\* cash-on-cash return
roiOfCashOnCash(isPersonal, price, currentVal, netIncome, totalEquityPaid) ==
    IF totalEquityPaid > 0 THEN Rat(netIncome * 100, totalEquityPaid)
    ELSE Rat(0, 1)

\* personal use: appreciation on the price; otherwise cash-on-cash return
roiOf(isPersonal, price, currentVal, netIncome, totalEquityPaid) ==
    IF isPersonal
      THEN IF price > 0 THEN Rat((currentVal - price) * 100, price)
           ELSE Rat(0, 1)
      ELSE IF totalEquityPaid > 0
             THEN Rat(netIncome * 100, totalEquityPaid)
             ELSE Rat(0, 1)

\* annualizedNOI = (netIncome / monthsOwned) * 12, over the price; capRate
\* keeps its initial 0 for personal use
capRateOf(isPersonal, price, netIncome, monthsOwned) ==
    IF isPersonal THEN Rat(0, 1)
    ELSE IF price > 0 THEN Rat(netIncome * 12 * 100, monthsOwned * price)
    ELSE Rat(0, 1)

calculatePropertyFinancials(prop, ps) ==
    LET isPersonal       == prop.type = "Personal Use"
        totalEquityPaid  == totalEquityPaidOf(prop, ps)
        percentPaid      == percentPaidOf(prop, totalEquityPaid)
        currentVal       == OrElse(prop.currentMarketValue, prop.purchasePrice)
        netIncome        == totalRevenueOf(prop, ps) - totalExpensesOf(prop, ps)
        price            == prop.purchasePrice
        roi == roiOf(isPersonal, price, currentVal, netIncome, totalEquityPaid)
        capRate ==
            capRateOf(isPersonal, price, netIncome, monthsOwnedOf(prop, now))
    IN  [isPersonal       |-> isPersonal,
         totalEquityPaid  |-> totalEquityPaid,
         remainingBalance |-> remainingBalanceOf(prop, totalEquityPaid),
         percentPaid      |-> percentPaid,
         isFullyPaid      |-> RatLeq(Rat(100, 1), percentPaid),
         netIncome        |-> netIncome,
         roi              |-> roi,
         capRate          |-> capRate,
         valuationDelta   |-> currentVal - price,
         currentVal       |-> currentVal]

----------------------------------------------------------------------------
(* calculateMetrics *)

RECURSIVE outstandingOfLedgerOverdue(_)
\* (mutant) only the overdue installments are counted
outstandingOfLedgerOverdue(l) ==
    IF l = <<>> THEN 0
    ELSE (IF l[1].status = "overdue"
            THEN l[1].amountDue - l[1].amountPaid ELSE 0)
           + outstandingOfLedgerOverdue(Tail(l))

RECURSIVE outstandingOfLedger(_)
\* ledger.forEach(l => { if (l.status === 'overdue' || l.status === 'partial')
\*                         totalOutstanding += (l.amountDue - l.amountPaid) })
outstandingOfLedger(l) ==
    IF l = <<>> THEN 0
    ELSE (IF l[1].status \in {"overdue", "partial"}
            THEN l[1].amountDue - l[1].amountPaid ELSE 0)
           + outstandingOfLedger(Tail(l))

RECURSIVE totalOutstandingOfAll(_, _)
\* (mutant) the ledgers of past tenants are counted too
totalOutstandingOfAll(tns, ps) ==
    IF tns = <<>> THEN 0
    ELSE outstandingOfLedger(generateLedger(tns[1], ps))
           + totalOutstandingOfAll(Tail(tns), ps)

RECURSIVE totalOutstandingOf(_, _)
\* tenants.forEach(tenant => { if (tenant.status === 'active') { ... } })
totalOutstandingOf(tns, ps) ==
    IF tns = <<>> THEN 0
    ELSE (IF tns[1].status = "active"
            THEN outstandingOfLedger(generateLedger(tns[1], ps)) ELSE 0)
           + totalOutstandingOf(Tail(tns), ps)

\* (mutant) personal-use properties count as rentable
occupancyRateOfAll(props, tns) ==
    LET activeTenants == Len(SelectSeq(tns, LAMBDA t : t.status = "active"))
    IN  IF Len(props) > 0 THEN Rat(activeTenants * 100, Len(props))
        ELSE Rat(0, 1)

occupancyRateOf(props, tns) ==
    LET rentalProperties == SelectSeq(props, LAMBDA p : p.type # "Personal Use")
        activeTenants == Len(SelectSeq(tns, LAMBDA t : t.status = "active"))
    IN  IF Len(rentalProperties) > 0
          THEN Rat(activeTenants * 100, Len(rentalProperties))
        ELSE Rat(0, 1)

calculateMetrics(props, tns, ps) ==
    LET totalRevenue ==
            SumAmounts(SelectSeq(ps,
                LAMBDA p : p.type \in {"Rent", "Deposit", "Late Fee"}))
        totalExpenses ==
            SumAmounts(SelectSeq(ps, LAMBDA p : p.type = "Expense"))
    IN  [totalRevenue   |-> totalRevenue,
         netIncome      |-> totalRevenue - totalExpenses,
         occupancyRate  |-> occupancyRateOf(props, tns),
         outstandingRent |-> totalOutstandingOf(tns, ps)]

----------------------------------------------------------------------------
(* generateChartData.  A payment's optional monthKey is <<>> when absent. *)

\* for (i = 5; i >= 0; i--) push getMonthKey(new Date(year, month - i, 1))
last6Months(nowD) ==
    [j \in 1..6 |-> getMonthKey(MkDate(MonthOf(nowD) - (6 - j), 1, 0))]

\* (mutant) Income takes the revenue types only, leaving Equity out
incomeOfKeyRevenue(ps, key) ==
    SumAmounts(SelectSeq(ps,
        LAMBDA p : p.monthKey = key /\ p.type \in {"Rent", "Deposit", "Late Fee"}))

incomeOfKey(ps, key) ==
    SumAmounts(SelectSeq(ps, LAMBDA p : p.monthKey = key /\ p.type # "Expense"))

expenseOfKey(ps, key) ==
    SumAmounts(SelectSeq(ps, LAMBDA p : p.monthKey = key /\ p.type = "Expense"))

generateChartData(ps) ==
    LET keys == last6Months(now)
    IN  [j \in 1..6 |-> [name    |-> keys[j],
                         Income  |-> incomeOfKey(ps, keys[j]),
                         Expense |-> expenseOfKey(ps, keys[j])]]

----------------------------------------------------------------------------
(* generateIncomeStatement.  A string is the sequence of its words and of
   the separators ":" and " " between them; an optional string is <<>> when
   it is absent or empty (both are falsy). *)

\* new Date(s).getFullYear()
FullYearOf(s) == YearOf(MonthOf(ParseDateString(s)))

\* payments.filter(p => new Date(p.date).getFullYear() === year); the year of
\* an invalid date is NaN
yearlyPayments(ps, y) ==
    SelectSeq(ps, LAMBDA p : ~IsInvalidDate(p.date) /\ FullYearOf(p.date) = y)

RECURSIVE BeforeColon(_)
\* s.split(':')[0]
BeforeColon(s) ==
    IF s = <<>> THEN <<>>
    ELSE IF Head(s) = ":" THEN <<>>
    ELSE <<Head(s)>> \o BeforeColon(Tail(s))

RECURSIVE TrimStart(_)
TrimStart(s) ==
    IF s = <<>> THEN <<>>
    ELSE IF Head(s) = " " THEN TrimStart(Tail(s)) ELSE s

\* s.trim()
Trim(s) == Reverse(TrimStart(Reverse(TrimStart(s))))

Uncategorized == <<"Uncategorized">>

\* let category = p.expenseCategory;
\* if (!category) category = p.note ? p.note.split(':')[0].trim() : 'Uncategorized'
categoryOf(p) ==
    IF p.expenseCategory # <<>> THEN p.expenseCategory
    ELSE IF p.note # <<>> THEN Trim(BeforeColon(p.note))
    ELSE Uncategorized

\* if (!expenses[category]) expenses[category] = 0; expenses[category] += amount
addExpense(expenses, category, amount) ==
    IF category \in DOMAIN expenses
      THEN [expenses EXCEPT ![category] = @ + amount]
    ELSE [c \in DOMAIN expenses \cup {category} |->
             IF c = category THEN amount ELSE expenses[c]]

EmptyStatement ==
    [revenue |-> [Rent |-> 0, Deposit |-> 0, Other |-> 0, Total |-> 0],
     expenses |-> [c \in {} |-> 0], totalExpenses |-> 0, netIncome |-> 0]

\* the body of yearlyPayments.forEach
postPayment(st, p) ==
    IF p.type = "Rent"
      THEN [st EXCEPT !.revenue.Rent = @ + p.amount,
                      !.revenue.Total = @ + p.amount]
    ELSE IF p.type = "Deposit"
      THEN [st EXCEPT !.revenue.Deposit = @ + p.amount,
                      !.revenue.Total = @ + p.amount]
    ELSE IF p.type = "Late Fee"
      THEN [st EXCEPT !.revenue.Other = @ + p.amount,
                      !.revenue.Total = @ + p.amount]
    ELSE IF p.type = "Expense"
      THEN [st EXCEPT !.expenses = addExpense(@, categoryOf(p), p.amount),
                      !.totalExpenses = @ + p.amount]
    ELSE st

RECURSIVE postPayments(_, _)
postPayments(st, ps) ==
    IF ps = <<>> THEN st ELSE postPayments(postPayment(st, ps[1]), Tail(ps))

generateIncomeStatement(ps, y) ==
    LET st == postPayments(EmptyStatement, yearlyPayments(ps, y))
    IN  [st EXCEPT !.netIncome = st.revenue.Total - st.totalExpenses]

----------------------------------------------------------------------------
(* generateFinancialSummary.  A period label is <<year, month>> for
   "YYYY-MM" and <<year>> for "YYYY". *)

\* a.localeCompare(b) < 0 on two labels of the same form
PeriodLess(a, b) ==
    \/ a[1] < b[1]
    \/ a[1] = b[1] /\ Len(a) = 2 /\ Len(b) = 2 /\ a[2] < b[2]

\* if (!buckets[key]) buckets[key] = { income: 0, expense: 0 }
ensureBucket(buckets, key) ==
    IF key \in DOMAIN buckets THEN buckets
    ELSE [k \in DOMAIN buckets \cup {key} |->
             IF k = key THEN [income |-> 0, expense |-> 0] ELSE buckets[k]]

\* (mutant) every type but Expense counts as income
addToBucketAnyIncome(buckets, key, p) ==
    IF p.type = "Expense"
      THEN [buckets EXCEPT ![key].expense = @ + p.amount]
      ELSE [buckets EXCEPT ![key].income = @ + p.amount]

\* the bucket of key after the payment: Expense to expense, Rent, Deposit and
\* Late Fee to income, any other type to neither
addToBucket(buckets, key, p) ==
    IF p.type = "Expense"
      THEN [buckets EXCEPT ![key].expense = @ + p.amount]
    ELSE IF p.type \in {"Rent", "Deposit", "Late Fee"}
      THEN [buckets EXCEPT ![key].income = @ + p.amount]
    ELSE buckets

\* the body of payments.forEach
groupPayment(acc, p) ==
    IF IsInvalidDate(p.date) THEN acc
    ELSE LET date == ParseDateString(p.date)
             mKey == getMonthKey(date)
             yKey == <<YearOf(MonthOf(date))>>
         IN  [monthly |-> addToBucket(ensureBucket(acc.monthly, mKey), mKey, p),
              yearly  |-> addToBucket(ensureBucket(acc.yearly, yKey), yKey, p)]

RECURSIVE groupPayments(_, _)
groupPayments(acc, ps) ==
    IF ps = <<>> THEN acc ELSE groupPayments(groupPayment(acc, ps[1]), Tail(ps))

RECURSIVE sortDescending(_)
\* .sort((a, b) => b.period.localeCompare(a.period)) on distinct labels
sortDescending(keys) ==
    IF keys = {} THEN <<>>
    ELSE LET top == CHOOSE k \in keys :
                        \A j \in keys : j = k \/ PeriodLess(j, k)
         IN  <<top>> \o sortDescending(keys \ {top})

\* Object.keys(buckets).map(key => ({ period, income, expense, net })).sort(...)
statsOf(buckets) ==
    LET keys == sortDescending(DOMAIN buckets)
    IN  [i \in 1..Len(keys) |->
            [period  |-> keys[i],
             income  |-> buckets[keys[i]].income,
             expense |-> buckets[keys[i]].expense,
             net     |-> buckets[keys[i]].income - buckets[keys[i]].expense]]

generateFinancialSummary(ps) ==
    LET none == [k \in {} |-> [income |-> 0, expense |-> 0]]
        acc  == groupPayments([monthly |-> none, yearly |-> none], ps)
    IN  [monthlyStats |-> statsOf(acc.monthly),
         yearlyStats  |-> statsOf(acc.yearly)]

----------------------------------------------------------------------------
(* getUpcomingExpirations.  Time is counted in hours. *)

RECURSIVE DaysBefore(_)
\* the days from January 1st of BaseYear to the first of the month m
DaysBefore(m) ==
    IF m = 0 THEN 0
    ELSE IF m > 0 THEN DaysBefore(m - 1) + DaysInMonth(m - 1)
    ELSE DaysBefore(m + 1) - DaysInMonth(m)

\* date.getTime(), in hours from an epoch; both operands of a difference are
\* read in the same zone
getTime(t) == (DaysBefore(MonthOf(t)) + (DayOf(t) - 1)) * 24 + HourOf(t)

\* (mutant) Math.floor in place of Math.ceil
diffDaysFloor(leaseEnd, today) ==
    (getTime(ParseDateString(leaseEnd)) - getTime(today)) \div 24

\* Math.ceil((endDate.getTime() - today.getTime()) / (1000 * 60 * 60 * 24))
diffDaysOf(leaseEnd, today) ==
    0 - ((getTime(today) - getTime(ParseDateString(leaseEnd))) \div 24)

\* { ...t, daysLeft: diffDays }
withDaysLeft(t, today) ==
    [daysLeft |-> diffDaysOf(t.leaseEnd, today)] @@ t

RECURSIVE InsertByDaysLeft(_, _)
\* the stable insertion of e into a list already ascending by daysLeft
InsertByDaysLeft(e, s) ==
    IF s = <<>> THEN <<e>>
    ELSE IF e.daysLeft < s[1].daysLeft THEN <<e>> \o s
    ELSE <<s[1]>> \o InsertByDaysLeft(e, Tail(s))

RECURSIVE SortByDaysLeft(_)
\* .sort((a, b) => a.daysLeft - b.daysLeft)
SortByDaysLeft(s) ==
    IF s = <<>> THEN <<>>
    ELSE InsertByDaysLeft(s[Len(s)], SortByDaysLeft(SubSeq(s, 1, Len(s) - 1)))

getUpcomingExpirations(tns) ==
    LET today    == now
        leased   == SelectSeq(tns, LAMBDA t : t.status = "active" /\ HasLeaseEnd(t))
        counted  == [i \in 1..Len(leased) |-> withDaysLeft(leased[i], today)]
        upcoming == SelectSeq(counted,
                              LAMBDA t : t.daysLeft >= 0 /\ t.daysLeft <= 60)
    IN  SortByDaysLeft(upcoming)

----------------------------------------------------------------------------
(* Inputs *)

PaymentTypes == {"Rent", "Deposit", "Expense", "Equity", "Late Fee"}

TimeZones == {0 - 5, 0, 8}

\* the dates a form can store: the first or the fifteenth of a month
Dates == {DateString(m, d) : m \in 0..MaxMonth, d \in {1, 15}}

\* readings of the clock: the fifth of a month, at midnight or at noon
NowValues == {MkDate(m, 5, h) : m \in 0..MaxMonth, h \in {0, 12}}

\* every past tenant; an active tenant has no lease end or a late one
Tenants ==
    {t \in [id : {"t1"}, propertyId : {"p1"}, name : {"Juan"},
             rentAmount : {0, 10}, rentDueDay : {5, 28},
             leaseStart : Dates, leaseEnd : Dates \cup {NoDate},
             status : {"active", "past"}] :
        t.status = "active" => t.leaseEnd \in {NoDate, DateString(MaxMonth, 15)}}

Payment(tid, pid, amt, date, type) ==
    [tenantId |-> tid, propertyId |-> pid, amount |-> amt, date |-> date,
     type |-> type]

\* what the ledger reads: the tenant's rent, and a payment that is not rent
LedgerPayments ==
    {Payment("t1", "p1", 5, DateString(0, 15), "Rent"),
     Payment("t1", "p1", 15, DateString(1, 1), "Rent"),
     Payment("t1", "p1", 15, DateString(0, 15), "Deposit")}

\* what the settlement reads: the tenant's rent and deposits, another's deposit
MoveOutPayments ==
    {Payment("t1", "p1", 15, DateString(0, 15), "Rent"),
     Payment("t1", "p1", 5, DateString(0, 15), "Deposit"),
     Payment("t1", "p1", 20, DateString(1, 1), "Deposit"),
     Payment("t2", "p1", 15, DateString(0, 15), "Deposit")}

SeqsUpTo(S, n) == UNION {[1..k -> S] : k \in 0..n}

NoTenant == [id |-> "", propertyId |-> "", name |-> "", rentAmount |-> 0,
             rentDueDay |-> 1, leaseStart |-> NoDate, leaseEnd |-> NoDate,
             status |-> "active"]

NoProperty == [id |-> "", type |-> "Residential", purchasePrice |-> 0,
               purchaseDate |-> NoDate, downPayment |-> <<>>,
               currentMarketValue |-> <<>>]

NoResult == [none |-> TRUE]

----------------------------------------------------------------------------
(* The ledger of one tenant *)

\* the provider's initial state, and an empty storage
EmptyState == [properties |-> <<>>, tenants |-> <<>>, payments |-> <<>>]

NoSnapshot == [none |-> TRUE]

\* the provider before its first effect has run
BlankProvider ==
    /\ outputs = NoResult
    /\ outputs2 = NoResult
    /\ state = EmptyState
    /\ formData = NoResult
    /\ saveFailed = FALSE
    /\ dateNow = 0

BlankApp ==
    /\ BlankProvider
    /\ localStorage = NoSnapshot

\* nothing has been computed for the portfolio
BlankReports ==
    /\ propFin2 = NoResult
    /\ tenants = <<>>
    /\ properties = <<>>
    /\ year = BaseYear
    /\ metrics = NoResult
    /\ chartData = <<>>
    /\ statement = NoResult
    /\ summary = NoResult
    /\ expirations = <<>>

\* no function of the engine has been called
BlankEngine ==
    /\ BlankReports
    /\ property = NoProperty
    /\ payments = <<>>
    /\ payments2 = <<>>
    /\ ledger = <<>>
    /\ ledger2 = <<>>
    /\ moveOut = NoResult
    /\ propFin = NoResult
    /\ pc = "start"

Blank ==
    /\ BlankEngine
    /\ BlankApp

Init ==
    /\ tz \in TimeZones
    /\ now \in NowValues
    /\ tenant \in Tenants
    /\ Blank

GenerateLedger ==
    /\ pc = "start"
    /\ \E ps \in SeqsUpTo(LedgerPayments, MaxPayments) :
          /\ payments' = ps
          /\ ledger' = generateLedger(tenant, ps)
    /\ pc' = "ledger"
    /\ UNCHANGED <<tz, now, tenant, property, payments2, ledger2, moveOut, propFin,
                   reportVars, appVars>>

Next == GenerateLedger

Spec == Init /\ [][Next]_vars

----------------------------------------------------------------------------
(* The move-out settlement of one tenant *)

MoveOutTenants ==
    {t \in Tenants : t.rentDueDay = 5 /\ t.leaseStart.d = 1}

InitMoveOut ==
    /\ tz \in TimeZones
    /\ now \in {n \in NowValues : HourOf(n) = 12}
    /\ tenant \in MoveOutTenants
    /\ Blank

CalculateMoveOutFinancials ==
    /\ pc = "start"
    /\ \E ps \in SeqsUpTo(MoveOutPayments, MaxPayments) :
          /\ payments' = ps
          /\ ledger' = generateLedger(tenant, ps)
          /\ moveOut' = calculateMoveOutFinancials(tenant, ps)
    /\ pc' = "moveOut"
    /\ UNCHANGED <<tz, now, tenant, property, payments2, ledger2, propFin,
                   reportVars, appVars>>

NextMoveOut == CalculateMoveOutFinancials

SpecMoveOut == InitMoveOut /\ [][NextMoveOut]_vars

----------------------------------------------------------------------------
(* Two calls of generateLedger for one tenant, on two payment lists *)

\* the tenant's rent in several amounts and on two dates, the tenant's
\* payments of every other type, and another tenant's rent
SecondCallPayments ==
    {Payment("t1", "p1", a, d, "Rent") :
        a \in {5, 10, 15}, d \in {DateString(0, 15), DateString(1, 1)}}
      \cup {Payment("t1", "p1", 15, DateString(0, 15), ty) :
                ty \in PaymentTypes \ {"Rent"}}
      \cup {Payment("t2", "p1", 15, DateString(0, 15), "Rent")}

PaymentsTenants ==
    {t \in Tenants :
        /\ t.rentAmount = 10 /\ t.rentDueDay = 5
        /\ t.leaseStart = DateString(0, 1)
        /\ t.leaseEnd \in {NoDate, DateString(MaxMonth, 15)}
        /\ (t.status = "past" <=> HasLeaseEnd(t))}

InitPayments ==
    /\ tz \in TimeZones
    /\ now = MkDate(1, 5, 12)
    /\ tenant \in PaymentsTenants
    /\ Blank

GenerateLedgerAgain ==
    /\ pc = "ledger"
    /\ \E ps \in SeqsUpTo(SecondCallPayments, MaxPayments) :
          /\ payments2' = ps
          /\ ledger2' = generateLedger(tenant, ps)
    /\ pc' = "again"
    /\ UNCHANGED <<tz, now, tenant, property, payments, ledger, moveOut, propFin,
                   reportVars, appVars>>

NextPayments == GenerateLedger \/ GenerateLedgerAgain

SpecPayments == InitPayments /\ [][NextPayments]_vars

----------------------------------------------------------------------------
(* The financial snapshot of one property *)

Properties ==
    [id : {"p1"}, type : {"Residential", "Personal Use"},
     purchasePrice : {0, 1000},
     purchaseDate : {DateString(0, 1), DateString(MaxMonth, 15)},
     downPayment : {<<>>, <<0>>, <<200>>, <<1200>>},
     currentMarketValue : {<<>>, <<0>>, <<1200>>}]

\* the property's equity, rent and expenses, and another property's equity
PropertyPayments ==
    {Payment("", "p1", 300, DateString(0, 15), "Equity"),
     Payment("", "p1", 800, DateString(1, 1), "Equity"),
     Payment("", "p2", 300, DateString(0, 15), "Equity"),
     Payment("t1", "p1", 300, DateString(0, 15), "Rent"),
     Payment("", "p1", 100, DateString(0, 15), "Expense")}

InitProperty ==
    /\ tz \in TimeZones
    /\ now \in {n \in NowValues : HourOf(n) = 12}
    /\ tenant = NoTenant
    /\ property \in Properties
    /\ payments = <<>>
    /\ payments2 = <<>>
    /\ ledger = <<>>
    /\ ledger2 = <<>>
    /\ moveOut = NoResult
    /\ propFin = NoResult
    /\ pc = "start"
    /\ BlankReports
    /\ BlankApp

CalculatePropertyFinancials ==
    /\ pc = "start"
    /\ \E ps \in SeqsUpTo(PropertyPayments, MaxPayments) :
          /\ payments' = ps
          /\ propFin' = calculatePropertyFinancials(property, ps)
    /\ pc' = "property"
    /\ UNCHANGED <<tz, now, tenant, property, payments2, ledger, ledger2, moveOut,
                   reportVars, appVars>>

NextProperty == CalculatePropertyFinancials

SpecProperty == InitProperty /\ [][NextProperty]_vars

----------------------------------------------------------------------------
(* The snapshot of one property before and after further payments *)

EquityProperties ==
    {p \in Properties :
        /\ p.type = "Residential"
        /\ p.purchaseDate = DateString(0, 1)
        /\ p.currentMarketValue = <<>>}

\* what is recorded later for the property: amortization, and rent
FurtherPayments ==
    {Payment("", "p1", 300, DateString(1, 1), "Equity"),
     Payment("", "p1", 800, DateString(1, 1), "Equity"),
     Payment("t1", "p1", 300, DateString(1, 1), "Rent")}

InitEquity ==
    /\ tz \in TimeZones
    /\ now = MkDate(1, 5, 12)
    /\ tenant = NoTenant
    /\ property \in EquityProperties
    /\ payments = <<>>
    /\ payments2 = <<>>
    /\ ledger = <<>>
    /\ ledger2 = <<>>
    /\ moveOut = NoResult
    /\ propFin = NoResult
    /\ pc = "start"
    /\ BlankReports
    /\ BlankApp

\* addPayment appends to the list; the view computes the snapshot again
AddPayments ==
    /\ pc = "property"
    /\ \E more \in SeqsUpTo(FurtherPayments, MaxPayments) :
          /\ payments2' = payments \o more
          /\ propFin2' = calculatePropertyFinancials(property, payments \o more)
    /\ pc' = "further"
    /\ UNCHANGED <<tz, now, tenant, property, payments, ledger, ledger2, moveOut,
                   propFin, tenants, properties, year, metrics, chartData,
                   statement, summary, expirations, appVars>>

NextEquity == CalculatePropertyFinancials \/ AddPayments

SpecEquity == InitEquity /\ [][NextEquity]_vars

----------------------------------------------------------------------------
(* The dashboard metrics of a portfolio *)

MaxTenants == 2

\* the number of forms submitted in one session
MaxSubmits == 3

\* the id of the i-th tenant of the roster
TenantId(i) == "t" \o ToString(i)

\* tenants of one lease, active or moved out, with or without a lease end
MetricsTenants ==
    [id : {TenantId(i) : i \in 1..MaxTenants}, propertyId : {"p1"},
     name : {"Juan"}, rentAmount : {10}, rentDueDay : {5},
     leaseStart : {DateString(0, 1)},
     leaseEnd : {NoDate, DateString(MaxMonth, 15)},
     status : {"active", "past"}]

\* the tenant lists of the application state: ids are unique
Rosters ==
    UNION {{r \in [1..k -> MetricsTenants] :
                \A i \in 1..k : r[i].id = TenantId(i)} : k \in 0..MaxTenants}

MkProperty(id, type) ==
    [id |-> id, type |-> type, purchasePrice |-> 1000,
     purchaseDate |-> DateString(0, 1), downPayment |-> <<>>,
     currentMarketValue |-> <<>>]

\* the property lists of the application state
Portfolios ==
    {<<>>,
     <<MkProperty("p1", "Residential")>>,
     <<MkProperty("p1", "Personal Use")>>,
     <<MkProperty("p1", "Residential"), MkProperty("p2", "Personal Use")>>,
     <<MkProperty("p1", "Commercial"), MkProperty("p2", "Residential"),
       MkProperty("p3", "Industrial")>>}

\* rent of the first and of the second tenant, a deposit and an expense
MetricsPayments ==
    {Payment("t1", "p1", 5, DateString(0, 15), "Rent"),
     Payment("t2", "p1", 25, DateString(0, 15), "Rent"),
     Payment("t1", "p1", 15, DateString(0, 15), "Deposit"),
     Payment("", "p1", 100, DateString(0, 15), "Expense")}

InitMetrics ==
    /\ tz \in TimeZones
    /\ now = MkDate(MaxMonth, 5, 12)
    /\ tenant = NoTenant
    /\ Blank

CalculateMetrics ==
    /\ pc = "start"
    /\ \E props \in Portfolios, tns \in Rosters,
          ps \in SeqsUpTo(MetricsPayments, MaxPayments) :
          /\ properties' = props
          /\ tenants' = tns
          /\ payments' = ps
          /\ metrics' = calculateMetrics(props, tns, ps)
    /\ pc' = "metrics"
    /\ UNCHANGED <<tz, now, tenant, property, payments2, ledger, ledger2, moveOut,
                   propFin, propFin2, year, chartData, statement, summary,
                   expirations, appVars>>

NextMetrics == CalculateMetrics

SpecMetrics == InitMetrics /\ [][NextMetrics]_vars

----------------------------------------------------------------------------
(* The chart of the last six months *)

NoKey == <<>>

\* a payment as the forms store it, with its month key
KeyedPayment(amt, type, key) ==
    [tenantId |-> "", propertyId |-> "p1", amount |-> amt,
     date |-> DateString(0, 15), type |-> type, monthKey |-> key]

\* payments of the base month, of the fifth month before it, of the last
\* month of the model, and one that carries no month key
ChartPayments ==
    {KeyedPayment(10, "Rent", getMonthKey(MkDate(0, 1, 0))),
     KeyedPayment(4, "Expense", getMonthKey(MkDate(0, 1, 0))),
     KeyedPayment(7, "Equity", getMonthKey(MkDate(0, 1, 0))),
     KeyedPayment(10, "Rent", getMonthKey(MkDate(0 - 5, 1, 0))),
     KeyedPayment(4, "Expense", getMonthKey(MkDate(MaxMonth, 1, 0))),
     KeyedPayment(10, "Late Fee", NoKey)}

InitChart ==
    /\ tz \in TimeZones
    /\ now \in NowValues
    /\ tenant = NoTenant
    /\ Blank

GenerateChartData ==
    /\ pc = "start"
    /\ \E ps \in SeqsUpTo(ChartPayments, MaxPayments) :
          /\ payments' = ps
          /\ chartData' = generateChartData(ps)
    /\ pc' = "chart"
    /\ UNCHANGED <<tz, now, tenant, property, payments2, ledger, ledger2, moveOut,
                   propFin, propFin2, tenants, properties, year, metrics,
                   statement, summary, expirations, appVars>>

NextChart == GenerateChartData

SpecChart == InitChart /\ [][NextChart]_vars

----------------------------------------------------------------------------
(* The income statement of a year *)

\* a payment as the reports read it
ReportPayment(amt, date, type, category, note) ==
    [tenantId |-> "", propertyId |-> "p1", amount |-> amt, date |-> date,
     type |-> type, expenseCategory |-> category, note |-> note]

\* revenue of every type on New Year's Day, in mid-January and in the
\* December before; equity; expenses with a category, with a note of the
\* form "Category: text", with a padded one, with a note without a colon
\* (what a deposit refund records) and with neither; an expense whose date
\* field was emptied
ReportPayments ==
    {ReportPayment(10, DateString(0, 1), "Rent", <<>>, <<>>),
     ReportPayment(20, DateString(0, 15), "Deposit", <<>>, <<>>),
     ReportPayment(3, DateString(0, 15), "Late Fee", <<>>, <<>>),
     ReportPayment(50, DateString(0, 15), "Equity", <<>>, <<>>),
     ReportPayment(10, DateString(0 - 1, 15), "Rent", <<>>, <<>>),
     ReportPayment(4, DateString(0, 15), "Expense", <<"Maintenance">>,
                   <<"Tax", ":", " ", "roof">>),
     ReportPayment(5, DateString(0, 15), "Expense", <<>>,
                   <<"Maintenance", ":", " ", "pipe", " ", "fix">>),
     ReportPayment(9, DateString(0 - 1, 15), "Expense", <<>>,
                   <<" ", "Tax", " ", ":", "roof">>),
     ReportPayment(7, DateString(0, 15), "Expense", <<>>,
                   <<"Security", " ", "Deposit", " ", "Refund">>),
     ReportPayment(6, DateString(0, 15), "Expense", <<>>, <<>>),
     ReportPayment(8, NoDate, "Expense", <<"Other">>, <<>>)}

InitStatement ==
    /\ tz \in TimeZones
    /\ now = MkDate(MaxMonth, 5, 12)
    /\ tenant = NoTenant
    /\ Blank

GenerateIncomeStatement ==
    /\ pc = "start"
    /\ \E ps \in SeqsUpTo(ReportPayments, MaxPayments),
          y \in {BaseYear - 1, BaseYear} :
          /\ payments' = ps
          /\ year' = y
          /\ statement' = generateIncomeStatement(ps, y)
    /\ pc' = "statement"
    /\ UNCHANGED <<tz, now, tenant, property, payments2, ledger, ledger2, moveOut,
                   propFin, propFin2, tenants, properties, metrics, chartData,
                   summary, expirations, appVars>>

NextStatement == GenerateIncomeStatement

SpecStatement == InitStatement /\ [][NextStatement]_vars

----------------------------------------------------------------------------
(* The monthly and yearly summary *)

InitSummary ==
    /\ tz \in TimeZones
    /\ now = MkDate(MaxMonth, 5, 12)
    /\ tenant = NoTenant
    /\ Blank

GenerateFinancialSummary ==
    /\ pc = "start"
    /\ \E ps \in SeqsUpTo(ReportPayments, MaxPayments) :
          /\ payments' = ps
          /\ summary' = generateFinancialSummary(ps)
    /\ pc' = "summary"
    /\ UNCHANGED <<tz, now, tenant, property, payments2, ledger, ledger2, moveOut,
                   propFin, propFin2, tenants, properties, year, metrics,
                   chartData, statement, expirations, appVars>>

NextSummary == GenerateFinancialSummary

SpecSummary == InitSummary /\ [][NextSummary]_vars

----------------------------------------------------------------------------
(* The leases that expire soon *)

\* lease ends around the clock's day (January 5th), around sixty days after
\* it, in between, and none
LeaseEnds ==
    {NoDate, DateString(0, 1), DateString(0, 5), DateString(0, 6),
     DateString(1, 15), DateString(2, 5), DateString(2, 6)}

ExpiringTenants ==
    [id : {TenantId(i) : i \in 1..MaxTenants}, propertyId : {"p1"},
     name : {"Juan"}, rentAmount : {10}, rentDueDay : {5},
     leaseStart : {DateString(0, 1)}, leaseEnd : LeaseEnds,
     status : {"active", "past"}]

ExpiringRosters ==
    UNION {{r \in [1..k -> ExpiringTenants] :
                \A i \in 1..k : r[i].id = TenantId(i)} : k \in 0..MaxTenants}

InitExpirations ==
    /\ tz \in TimeZones
    /\ now \in {MkDate(0, 5, 0), MkDate(0, 5, 12)}
    /\ tenant = NoTenant
    /\ Blank

GetUpcomingExpirations ==
    /\ pc = "start"
    /\ \E tns \in ExpiringRosters :
          /\ tenants' = tns
          /\ expirations' = getUpcomingExpirations(tns)
    /\ pc' = "expirations"
    /\ UNCHANGED <<tz, now, tenant, property, payments, payments2, ledger,
                   ledger2, moveOut, propFin, propFin2, properties, year,
                   metrics, chartData, statement, summary, appVars>>

NextExpirations == GetUpcomingExpirations

SpecExpirations == InitExpirations /\ [][NextExpirations]_vars

----------------------------------------------------------------------------
(* One tenant as the tenant view and the dashboard compute it: the ledger,
   the move-out position and the metrics of the same tenant and payments *)

\* leases that start on time, late, or with no date at all, and that end
\* before they start, after, or never
LeaseTenants ==
    [id : {"t1"}, propertyId : {"p1"}, name : {"Juan"}, rentAmount : {10},
     rentDueDay : {5},
     leaseStart : {NoDate, DateString(0, 1), DateString(1, 15),
                   DateString(MaxMonth, 1)},
     leaseEnd : {NoDate, DateString(0, 15), DateString(MaxMonth, 15)},
     status : {"active", "past"}]

InitLease ==
    /\ tz \in TimeZones
    /\ now \in NowValues
    /\ tenant \in LeaseTenants
    /\ Blank

LeaseFinancials ==
    /\ pc = "start"
    /\ \E ps \in SeqsUpTo(LedgerPayments, MaxPayments) :
          /\ payments' = ps
          /\ ledger' = generateLedger(tenant, ps)
          /\ moveOut' = calculateMoveOutFinancials(tenant, ps)
          /\ tenants' = <<tenant>>
          /\ metrics' = calculateMetrics(<<>>, <<tenant>>, ps)
    /\ pc' = "lease"
    /\ UNCHANGED <<tz, now, tenant, property, payments2, ledger2, propFin,
                   propFin2, properties, year, chartData, statement, summary,
                   expirations, appVars>>

NextLease == LeaseFinancials

SpecLease == InitLease /\ [][NextLease]_vars

----------------------------------------------------------------------------
(* storageService: the snapshot in localStorage *)

CURRENT_VERSION == 1

\* x || 0 for an optional number
orZero(x) == IF x = <<>> \/ x = <<0>> THEN <<0>> ELSE x

\* p.method || PaymentMethod.CASH
orCash(x) == IF x = <<>> THEN <<"Cash">> ELSE x

\* a property of the application: what the engine reads of it, and the
\* monthly amortization
AppProperty(id, type, price, down, amort, value) ==
    [id |-> id, type |-> type, purchasePrice |-> price,
     purchaseDate |-> DateString(0, 1), downPayment |-> down,
     monthlyAmortization |-> amort, currentMarketValue |-> value]

AppTenant(id, pid, rent, end, status) ==
    [id |-> id, propertyId |-> pid, name |-> "Juan", rentAmount |-> rent,
     rentDueDay |-> 5, leaseStart |-> DateString(0, 1), leaseEnd |-> end,
     status |-> status]

AppPayment(id, tid, pid, amt, date, type, method, note) ==
    [id |-> id, tenantId |-> tid, propertyId |-> pid, amount |-> amt,
     date |-> date, type |-> type, method |-> method, note |-> note]

\* the seed, cut down to a rental property without currentMarketValue, its
\* tenant and one rent payment
SEED_DATA ==
    [properties |-> <<AppProperty("prop_1", "Residential", 1000, <<200>>, <<45>>,
                                  <<>>)>>,
     tenants    |-> <<AppTenant("ten_1", "prop_1", 10, NoDate, "active")>>,
     payments   |-> <<AppPayment("pay_1", "ten_1", "prop_1", 10, DateString(0, 15),
                                 "Rent", <<"GCash">>, <<>>)>>]

\* JSON.stringify({...state, version: CURRENT_VERSION})
stringify(s) ==
    [properties |-> s.properties, tenants |-> s.tenants,
     payments |-> s.payments, version |-> CURRENT_VERSION]

\* what loadState returns for the snapshot it finds
loadState(storage) ==
    IF storage = NoSnapshot THEN SEED_DATA
    ELSE [properties |->
              [i \in 1..Len(storage.properties) |->
                  [storage.properties[i] EXCEPT
                      !.downPayment = orZero(@),
                      !.monthlyAmortization = orZero(@),
                      !.currentMarketValue = orZero(@)]],
          tenants    |-> storage.tenants,
          payments   |->
              [i \in 1..Len(storage.payments) |->
                  [storage.payments[i] EXCEPT !.method = orCash(@)]]]

RECURSIVE FirstSaved(_, _, _)
\* (mutant) once a write has succeeded the later ones are dropped
FirstSaved(storage, news, oks) ==
    IF news = <<>> THEN storage
    ELSE IF oks[1] THEN stringify(news[1])
    ELSE FirstSaved(storage, Tail(news), Tail(oks))

RECURSIVE LastSaved(_, _, _)
\* the storage after saveState(news[1]), ..., saveState(news[n]), where
\* oks[i] tells whether setItem accepted the i-th write (a refused write is
\* logged and leaves the storage as it was)
LastSaved(storage, news, oks) ==
    IF news = <<>> THEN storage
    ELSE LastSaved(IF oks[1] THEN stringify(news[1]) ELSE storage,
                   Tail(news), Tail(oks))

----------------------------------------------------------------------------
(* AppContext: each operation builds newState from the state of the render
   it was created in *)

addProperty(s, prop) ==
    [s EXCEPT !.properties = Append(@, prop)]

deleteProperty(s, id) ==
    [s EXCEPT !.properties = SelectSeq(@, LAMBDA p : p.id # id)]

addTenant(s, t) ==
    [s EXCEPT !.tenants = Append(@, t)]

updateTenant(s, t) ==
    [s EXCEPT !.tenants = [i \in 1..Len(@) |-> IF @[i].id = t.id THEN t ELSE @[i]]]

deleteTenant(s, id) ==
    [s EXCEPT !.tenants = SelectSeq(@, LAMBDA t : t.id # id)]

addPayment(s, p) ==
    [s EXCEPT !.payments = Append(@, p)]

updatePayment(s, p) ==
    [s EXCEPT !.payments = [i \in 1..Len(@) |-> IF @[i].id = p.id THEN p ELSE @[i]]]

deletePayment(s, id) ==
    [s EXCEPT !.payments = SelectSeq(@, LAMBDA p : p.id # id)]

----------------------------------------------------------------------------
(* Every engine function called twice on the same arguments *)

\* (mutant) payments.sort(...) called on the argument itself
paymentsSortedInPlace(ps) == SortByDate(ps)

\* the payments argument after generateLedger returned: filter() builds a
\* fresh array and it is that array which sort() reorders
paymentsAfterSort(ps) == ps

\* the tenants argument after getUpcomingExpirations returned: filter() and
\* map() build fresh arrays and sort() reorders the last of them
tenantsAfterSort(tns) == tns

\* what the eight functions return at the present reading of the clock
engineOutputs(t, prop, ps, y) ==
    [ledger      |-> generateLedger(t, ps),
     moveOut     |-> calculateMoveOutFinancials(t, ps),
     metrics     |-> calculateMetrics(<<prop>>, <<t>>, ps),
     propFin     |-> calculatePropertyFinancials(prop, ps),
     chartData   |-> generateChartData(ps),
     statement   |-> generateIncomeStatement(ps, y),
     summary     |-> generateFinancialSummary(ps),
     expirations |-> getUpcomingExpirations(<<t>>)]

\* a payment with every field the eight functions read
FullPayment(amt, date, type) ==
    [tenantId |-> "t1", propertyId |-> "p1", amount |-> amt, date |-> date,
     type |-> type, expenseCategory |-> <<>>, note |-> <<>>,
     monthKey |-> getMonthKey(MkDate(date.m, date.d, 0))]

TwicePayments ==
    {FullPayment(15, DateString(1, 1), "Rent"),
     FullPayment(5, DateString(0, 15), "Rent"),
     FullPayment(4, DateString(0, 15), "Expense")}

\* an open-ended lease, a lease that ends within two months, a lease that
\* has ended
TwiceTenants ==
    {[id |-> "t1", propertyId |-> "p1", name |-> "Juan", rentAmount |-> 10,
      rentDueDay |-> 5, leaseStart |-> DateString(0, 1),
      leaseEnd |-> e[1], status |-> e[2]] :
        e \in {<<NoDate, "active">>, <<DateString(MaxMonth, 15), "active">>,
                <<DateString(1, 15), "past">>}}

InitTwice ==
    /\ tz \in TimeZones
    /\ now \in NowValues
    /\ tenant \in TwiceTenants
    /\ Blank

CallEngine ==
    /\ pc = "start"
    /\ \E ps \in SeqsUpTo(TwicePayments, MaxPayments) :
          LET prop == MkProperty("p1", "Residential")
          IN  /\ payments2' = ps
              /\ property' = prop
              /\ outputs' = [at |-> now,
                             result |-> engineOutputs(tenant, prop, ps, year)]
              /\ payments' = paymentsAfterSort(ps)
              /\ tenants' = tenantsAfterSort(<<tenant>>)
              /\ properties' = <<prop>>
    /\ pc' = "once"
    /\ UNCHANGED <<tz, now, tenant, ledger, ledger2, moveOut, propFin,
                   propFin2, year, metrics, chartData, statement, summary,
                   expirations, outputs2, state, localStorage, formData,
                   saveFailed, dateNow>>

\* time passes between the two calls
ClockAdvances ==
    /\ pc = "once"
    /\ \E n \in NowValues : n > now /\ now' = n
    /\ pc' = "later"
    /\ UNCHANGED <<tz, tenant, property, payments, payments2, ledger, ledger2,
                   moveOut, propFin, reportVars, appVars>>

CallEngineAgain ==
    /\ pc \in {"once", "later"}
    /\ outputs2' = [at |-> now,
                    result |-> engineOutputs(tenants[1], properties[1],
                                             payments, year)]
    /\ payments' = paymentsAfterSort(payments)
    /\ tenants' = tenantsAfterSort(tenants)
    /\ pc' = "twice"
    /\ UNCHANGED <<tz, now, tenant, property, payments2, ledger, ledger2,
                   moveOut, propFin, propFin2, properties, year, metrics,
                   chartData, statement, summary, expirations, outputs, state,
                   localStorage, formData, saveFailed, dateNow>>

NextTwice == CallEngine \/ ClockAdvances \/ CallEngineAgain

SpecTwice == InitTwice /\ [][NextTwice]_vars

----------------------------------------------------------------------------
(* The application: the provider, the storage and the views' handlers *)

\* what an earlier session left in the storage: a property saved before the
\* financing fields existed, its tenant and an imported deposit
EarlierSnapshot ==
    stringify(
      [properties |-> <<AppProperty("prop_1", "Residential", 1000, <<>>, <<>>,
                                    <<>>)>>,
       tenants    |-> <<AppTenant("ten_1", "prop_1", 10, NoDate, "active")>>,
       payments   |-> <<AppPayment("pay_1", "ten_1", "prop_1", 15, DateString(0, 15),
                                   "Deposit", <<>>, <<>>)>>])

\* the ids in a list of records
IdsOf(l) == {l[i].id : i \in 1..Len(l)}

\* `${prefix}_${Date.now()}`
NewId(prefix) == prefix \o "_" \o ToString(dateNow)

InitApp ==
    /\ tz = 0
    /\ now = MkDate(0, 5, 12)
    /\ tenant = NoTenant
    /\ BlankEngine
    /\ BlankProvider
    /\ localStorage \in {NoSnapshot, EarlierSnapshot}

\* nothing of the engine's own state moves while a handler runs
engineIdle ==
    UNCHANGED <<tz, now, payments, payments2, ledger, ledger2, propFin,
                propFin2, tenants, properties, year, chartData, statement,
                summary, expirations, outputs, outputs2>>

\* whether each of n writes is accepted: all of them, or (the storage being
\* full or disabled) none
Accepted(n, refused) == [i \in 1..n |-> ~refused]

\* useEffect(() => setState(loadState()), []), and refreshData: loadState
\* seeds an empty storage; refused tells whether the storage takes writes
Load(name, refused) ==
    /\ state' = loadState(localStorage)
    /\ saveFailed' = refused
    /\ IF localStorage = NoSnapshot
         THEN localStorage' = LastSaved(localStorage, <<SEED_DATA>>,
                                        Accepted(1, refused))
         ELSE UNCHANGED localStorage
    /\ pc' = name
    /\ formData' = NoResult
    /\ UNCHANGED <<tenant, property, moveOut, metrics, dateNow>>
    /\ engineIdle

Mount ==
    /\ pc = "start"
    /\ \E refused \in BOOLEAN : Load("mounted", refused)

refreshData ==
    /\ pc # "start"
    /\ Load("refreshData", saveFailed)

\* a handler that called the provider's operations, which computed
\* news[1], ..., news[n] from the state of the same render, each followed by
\* setState and saveState: the last setState stands
Commit(news, name, form, t, prop, mo) ==
    /\ dateNow < MaxSubmits
    /\ dateNow' = dateNow + 1
    /\ state' = news[Len(news)]
    /\ localStorage' = LastSaved(localStorage, news,
                                  Accepted(Len(news), saveFailed))
    /\ UNCHANGED saveFailed
    /\ pc' = name
    /\ formData' = form
    /\ tenant' = t
    /\ property' = prop
    /\ moveOut' = mo
    /\ metrics' = NoResult
    /\ engineIdle

\* the Properties view: a new property, or an edit of one of the list
handlePropSubmit ==
    /\ pc # "start"
    /\ \/ \E type \in {"Residential", "Personal Use"} :
             LET newProperty ==
                     AppProperty(NewId("prop"), type, 1000, <<0>>, <<0>>,
                                 <<1000>>)
             IN  Commit(<<addProperty(state, newProperty)>>,
                        "handlePropSubmit",
                        [isEditing |-> FALSE, id |-> ""],
                        NoTenant, newProperty, NoResult)
       \/ \E i \in 1..Len(state.properties) :
             LET old == state.properties[i]
                 newProperty ==
                     AppProperty(old.id, old.type, 2000, orZero(old.downPayment),
                                 orZero(old.monthlyAmortization), <<2000>>)
             IN  Commit(<<deleteProperty(state, old.id),
                          addProperty(state, newProperty)>>,
                        "handlePropSubmit",
                        [isEditing |-> TRUE, id |-> old.id],
                        NoTenant, newProperty, NoResult)

handleDelete ==
    /\ pc # "start"
    /\ \E id \in IdsOf(state.properties) :
          Commit(<<deleteProperty(state, id)>>, "handleDelete",
                 NoResult, NoTenant, NoProperty, NoResult)

\* the Tenants view: a new tenant on any property of the list, or an edit
handleTenantSubmit ==
    /\ pc # "start"
    /\ \/ \E pid \in IdsOf(state.properties) :
             LET t == AppTenant(NewId("ten"), pid, 10, NoDate, "active")
             IN  Commit(<<addTenant(state, t)>>, "handleTenantSubmit",
                        NoResult, NoTenant, NoProperty, NoResult)
       \/ \E i \in 1..Len(state.tenants) :
             LET t == [state.tenants[i] EXCEPT !.rentAmount = 20]
             IN  Commit(<<updateTenant(state, t)>>, "handleTenantSubmit",
                        NoResult, NoTenant, NoProperty, NoResult)

handleDeleteTenant ==
    /\ pc # "start"
    /\ \E id \in IdsOf(state.tenants) :
          Commit(<<deleteTenant(state, id)>>, "handleDeleteTenant",
                 NoResult, NoTenant, NoProperty, NoResult)

\* addPayment calls saveState twice
addPaymentWrites(s, p) == <<addPayment(s, p), addPayment(s, p)>>

\* the ledger tab of a tenant: a new rent payment, or an edit of one of theirs
handlePaymentSubmit ==
    /\ pc # "start"
    /\ \E k \in 1..Len(state.tenants) :
          LET activeTenant == state.tenants[k]
          IN  \/ LET p == AppPayment(NewId("pay"), activeTenant.id,
                                     activeTenant.propertyId, 10,
                                     DateString(0, 15), "Rent", <<"Cash">>,
                                     <<>>)
                 IN  Commit(addPaymentWrites(state, p),
                            "handlePaymentSubmit",
                            NoResult, NoTenant, NoProperty, NoResult)
              \/ \E i \in 1..Len(state.payments) :
                    /\ state.payments[i].tenantId = activeTenant.id
                    /\ LET p == [state.payments[i] EXCEPT
                                    !.amount = 5,
                                    !.propertyId = activeTenant.propertyId,
                                    !.type = "Rent"]
                       IN  Commit(<<updatePayment(state, p)>>,
                                  "handlePaymentSubmit",
                                  NoResult, NoTenant, NoProperty, NoResult)

handleDeletePayment ==
    /\ pc # "start"
    /\ \E id \in IdsOf(state.payments) :
          Commit(<<deletePayment(state, id)>>, "handleDeletePayment",
                 NoResult, NoTenant, NoProperty, NoResult)

\* the transaction of step 1: a refund, a settlement, or none
refundPayments(activeTenant, finalRefundAmount, terminationDate) ==
    IF finalRefundAmount > 0
      THEN <<AppPayment(NewId("ref"), activeTenant.id, activeTenant.propertyId,
                        finalRefundAmount, terminationDate, "Expense",
                        <<"Cash">>,
                        <<"Security Deposit Refund (Lease End)">>)>>
    ELSE IF finalRefundAmount < 0
      THEN <<AppPayment(NewId("set"), activeTenant.id, activeTenant.propertyId,
                        0 - finalRefundAmount, terminationDate, "Rent",
                        <<"Cash">>,
                        <<"Final Settlement Payment (Lease End)">>)>>
    ELSE <<>>

\* the record of step 2
deductionPayments(activeTenant, deductions, terminationDate) ==
    IF deductions > 0
      THEN <<AppPayment(NewId("ded"), activeTenant.id, activeTenant.propertyId,
                        deductions, terminationDate, "Expense", <<"Other">>,
                        <<"Deposit Deduction", ":", " ", "repairs">>)>>
      ELSE <<>>

\* the tenant of step 3
archivedTenant(activeTenant, terminationDate) ==
    [activeTenant EXCEPT !.status = "past", !.leaseEnd = terminationDate]

RECURSIVE paymentWrites(_, _)
\* the newStates of one addPayment call per payment, all from the state s
paymentWrites(s, ps) ==
    IF ps = <<>> THEN <<>>
    ELSE addPaymentWrites(s, ps[1]) \o paymentWrites(s, Tail(ps))

\* the move-out form of the ledger tab
handleMoveOutSubmit ==
    /\ pc # "start"
    /\ \E k \in 1..Len(state.tenants), deductions \in {0, 5},
          processRefund \in BOOLEAN :
          LET activeTenant      == state.tenants[k]
              terminationDate   == DateString(1, 15)
              moveOutFinancials ==
                  calculateMoveOutFinancials(activeTenant, state.payments)
              finalRefundAmount ==
                  moveOutFinancials.netRefundable - deductions
              generated ==
                  (IF processRefund
                     THEN refundPayments(activeTenant, finalRefundAmount,
                                         terminationDate)
                     ELSE <<>>)
                    \o deductionPayments(activeTenant, deductions,
                                         terminationDate)
          IN  /\ activeTenant.status = "active"
              /\ Commit(paymentWrites(state, generated)
                          \o <<updateTenant(state,
                                   archivedTenant(activeTenant,
                                                  terminationDate))>>,
                        "handleMoveOutSubmit",
                        [deductions |-> deductions,
                         processRefund |-> processRefund,
                         terminationDate |-> terminationDate,
                         finalRefundAmount |-> finalRefundAmount],
                        activeTenant, NoProperty, moveOutFinancials)

\* the dashboard shows the metrics of the state it is rendered with
Dashboard ==
    /\ pc # "start"
    /\ metrics = NoResult
    /\ metrics' = calculateMetrics(state.properties, state.tenants,
                                   state.payments)
    /\ pc' = "Dashboard"
    /\ UNCHANGED <<tenant, property, moveOut, state, localStorage, formData,
                   saveFailed, dateNow>>
    /\ engineIdle

NextApp ==
    \/ Mount
    \/ refreshData
    \/ handlePropSubmit
    \/ handleDelete
    \/ handleTenantSubmit
    \/ handleDeleteTenant
    \/ handlePaymentSubmit
    \/ handleDeletePayment
    \/ handleMoveOutSubmit
    \/ Dashboard

SpecApp == InitApp /\ [][NextApp]_vars

----------------------------------------------------------------------------
(* The Reports view: the statement of a year and the summary of the same
   payments *)

\* the payments of the reports, and rent of the month after the base month
ConsistencyPayments ==
    ReportPayments \cup {ReportPayment(6, DateString(1, 15), "Rent", <<>>, <<>>)}

InitReports ==
    /\ tz \in TimeZones
    /\ now = MkDate(MaxMonth, 5, 12)
    /\ tenant = NoTenant
    /\ Blank

Reports ==
    /\ pc = "start"
    /\ \E ps \in SeqsUpTo(ConsistencyPayments, MaxPayments),
          selectedYear \in {BaseYear - 1, BaseYear} :
          /\ payments' = ps
          /\ year' = selectedYear
          /\ statement' = generateIncomeStatement(ps, selectedYear)
          /\ summary' = generateFinancialSummary(ps)
    /\ pc' = "reports"
    /\ UNCHANGED <<tz, now, tenant, property, payments2, ledger, ledger2,
                   moveOut, propFin, propFin2, tenants, properties, metrics,
                   chartData, expirations, appVars>>

NextReports == Reports

SpecReports == InitReports /\ [][NextReports]_vars

----------------------------------------------------------------------------
(* Vocabulary of the properties *)

\* the month key "YYYY-MM" of the month with index m
KeyOfMonth(m) == <<BaseYear + (m \div 12), (m % 12) + 1>>

\* the month index a month key names
MonthOfKey(k) == (k[1] - BaseYear) * 12 + (k[2] - 1)

\* the month keys of the calendar months a..b in chronological order
MonthRange(a, b) ==
    IF b < a THEN <<>> ELSE [i \in 1..(b - a + 1) |-> KeyOfMonth(a + i - 1)]

MonthKeys(l) == [i \in 1..Len(l) |-> l[i].monthKey]

RECURSIVE SumField(_, _)
SumField(l, f) == IF l = <<>> THEN 0 ELSE l[1][f] + SumField(Tail(l), f)

\* the total of the Rent payments that carry the tenant's id
RECURSIVE RentTotal(_, _)
RentTotal(t, ps) ==
    IF ps = <<>> THEN 0
    ELSE (IF ps[1].tenantId = t.id /\ ps[1].type = "Rent" THEN ps[1].amount ELSE 0)
           + RentTotal(t, Tail(ps))

\* the total of the Deposit payments that carry the tenant's id
RECURSIVE DepositTotal(_, _)
DepositTotal(t, ps) ==
    IF ps = <<>> THEN 0
    ELSE (IF ps[1].tenantId = t.id /\ ps[1].type = "Deposit" THEN ps[1].amount ELSE 0)
           + DepositTotal(t, Tail(ps))

\* local midnight of the tenant's due day in the month an installment is for
DueInstant(t, inst) ==
    LET m == MonthOfKey(inst.monthKey)
    IN  MkDate(m, Min(t.rentDueDay, DaysInMonth(m)), 0)

OpenEnded(t) == t.status = "active" \/ ~HasLeaseEnd(t)

----------------------------------------------------------------------------
(* C1: FIFO monotonicity.  Taking the installments by month, an installment
   has amountPaid > 0, or is paid, only if every earlier installment has
   amountPaid = amountDue; a rent of 10 with a single Rent payment of 15
   pays the first month in full (10) and the second in part (5). *)
C1_FifoMonotonicity ==
    pc = "ledger" =>
      /\ \A i, j \in 1..Len(ledger) :
            (/\ KeyLess(ledger[i].monthKey, ledger[j].monthKey)
             /\ (ledger[j].amountPaid > 0 \/ ledger[j].status = "paid"))
              => ledger[i].amountPaid = ledger[i].amountDue
      /\ (/\ tenant.rentAmount = 10
          /\ Len(ledger) >= 2
          /\ RentTotal(tenant, payments) = 15)
           => LET first  == ledger[Len(ledger)]
                  second == ledger[Len(ledger) - 1]
              IN  /\ first.status = "paid" /\ first.amountPaid = 10
                  /\ second.status = "partial" /\ second.amountPaid = 5

C1_Witness ==
    /\ pc = "ledger"
    /\ Len(ledger) >= 3
    /\ ledger[Len(ledger)].status = "paid"
    /\ ledger[Len(ledger) - 1].status = "partial"
    /\ ledger[Len(ledger) - 2].amountPaid = 0
    /\ tenant.rentAmount = 10

(* C2: conservation.  The sum of amountPaid over the ledger is the smaller of
   the tenant's total Rent payments and the ledger's total amountDue. *)
C2_Conservation ==
    pc = "ledger" =>
      SumField(ledger, "amountPaid")
        = Min(RentTotal(tenant, payments), SumField(ledger, "amountDue"))

C2_Witness ==
    /\ pc = "ledger"
    /\ SumField(ledger, "amountDue") > 0
    /\ RentTotal(tenant, payments) > SumField(ledger, "amountDue")
    /\ \E i \in 1..Len(payments) : payments[i].type = "Deposit"

(* C3: ledger completeness.  For an active or open-ended tenant the ledger
   has exactly one installment per calendar month from the month of
   leaseStart through the month following the current month, without gaps or
   duplicates, each with amountDue = rentAmount. *)
C3_LedgerCompleteness ==
    (pc = "ledger" /\ OpenEnded(tenant)) =>
      /\ MonthKeys(Reverse(ledger))
           = MonthRange(tenant.leaseStart.m, MonthOf(now) + 1)
      /\ \A i \in 1..Len(ledger) : ledger[i].amountDue = tenant.rentAmount

(* C4, as first stated: for a past tenant with leaseEnd set the end pointer
   is the first day of the month following leaseEnd's month, and the ledger
   runs from the leaseStart month through that month inclusive. *)
C4_EndPointerFollowsLeaseEnd ==
    (pc = "ledger" /\ tenant.status = "past" /\ HasLeaseEnd(tenant)) =>
      /\ endPointer(tenant, now) = MkDate(tenant.leaseEnd.m + 1, 1, 0)
      /\ MonthKeys(Reverse(ledger))
           = MonthRange(tenant.leaseStart.m, tenant.leaseEnd.m + 1)

(* C4, amended: for a past tenant with leaseEnd set the end pointer is the
   first day of leaseEnd's own month: no installment is for a month after
   leaseEnd's month, the ledger is the same at every current date, and where
   date strings are read at local midnight (a host at UTC) the installments
   are exactly the months from leaseStart's through leaseEnd's. *)
C4_PastHorizon ==
    (pc = "ledger" /\ tenant.status = "past" /\ HasLeaseEnd(tenant)) =>
      /\ \A i \in 1..Len(ledger) :
            MonthOfKey(ledger[i].monthKey) <= tenant.leaseEnd.m
      /\ \A n \in NowValues : generateLedgerAt(tenant, payments, n) = ledger
      /\ tz = 0 =>
            MonthKeys(Reverse(ledger))
              = MonthRange(tenant.leaseStart.m, tenant.leaseEnd.m)

C4_Witness ==
    /\ pc = "ledger"
    /\ tenant.status = "past"
    /\ HasLeaseEnd(tenant)
    /\ tz = 0
    /\ Len(ledger) >= 2
    /\ MonthOf(now) # tenant.leaseEnd.m
    /\ ledger[1].monthKey = KeyOfMonth(tenant.leaseEnd.m)

(* C5: status derivation.  An installment is paid iff amountPaid >= amountDue;
   otherwise partial iff amountPaid > 0; otherwise overdue iff its due date is
   before now or the tenant is past; otherwise pending.  A tenant with
   rentAmount = 0 has only paid installments and a past tenant has no pending
   installment. *)
C5_StatusDerivation ==
    pc = "ledger" =>
      \A i \in 1..Len(ledger) :
        LET inst  == ledger[i]
            full  == inst.amountPaid >= inst.amountDue
            some  == inst.amountPaid > 0
            late  == DueInstant(tenant, inst) < now \/ tenant.status = "past"
        IN  /\ inst.status = "paid" <=> full
            /\ inst.status = "partial" <=> (~full /\ some)
            /\ inst.status = "overdue" <=> (~full /\ ~some /\ late)
            /\ inst.status = "pending" <=> (~full /\ ~some /\ ~late)
            /\ tenant.rentAmount = 0 => inst.status = "paid"
            /\ tenant.status = "past" => inst.status # "pending"

C5_Witness ==
    /\ pc = "ledger"
    /\ \E i, j, k, n \in 1..Len(ledger) :
          /\ ledger[i].status = "paid"
          /\ ledger[j].status = "partial"
          /\ ledger[k].status = "overdue"
          /\ ledger[n].status = "pending"

(* C8: generateLedger returns the installments newest first: the month keys
   are strictly decreasing, the first element is the horizon month, the last
   is the leaseStart month, and reversing gives the chronological order. *)
C8_NewestFirst ==
    (pc = "ledger" /\ ledger # <<>>) =>
      /\ \A i \in 1..(Len(ledger) - 1) :
            KeyLess(ledger[i + 1].monthKey, ledger[i].monthKey)
      /\ ledger[1].monthKey = getMonthKey(endPointer(tenant, now))
      /\ ledger[Len(ledger)].monthKey = KeyOfMonth(tenant.leaseStart.m)
      /\ \A i, j \in 1..Len(ledger) :
            i < j => KeyLess(Reverse(ledger)[i].monthKey, Reverse(ledger)[j].monthKey)

\* the total over a ledger of max(0, amountDue - amountPaid)
RECURSIVE ShortfallTotal(_)
ShortfallTotal(l) ==
    IF l = <<>> THEN 0
    ELSE Max(0, l[1].amountDue - l[1].amountPaid) + ShortfallTotal(Tail(l))

(* C9: move-out settlement.  depositHeld is the sum of the tenant's Deposit
   payments, unpaidRent the sum over the tenant's ledger of
   max(0, amountDue - amountPaid), netRefundable their difference, negative
   exactly when the shortfall exceeds the deposit; a deposit of 20 with a
   shortfall of 5 refunds 15. *)
C9_MoveOutSettlement ==
    pc = "moveOut" =>
      /\ moveOut.depositHeld = DepositTotal(tenant, payments)
      /\ moveOut.unpaidRent = ShortfallTotal(ledger)
      /\ moveOut.netRefundable = moveOut.depositHeld - moveOut.unpaidRent
      /\ moveOut.netRefundable < 0 <=> moveOut.unpaidRent > moveOut.depositHeld
      /\ (moveOut.depositHeld = 20 /\ moveOut.unpaidRent = 5)
           => moveOut.netRefundable = 15

C9_Witness ==
    /\ pc = "moveOut"
    /\ moveOut.depositHeld = 20
    /\ moveOut.unpaidRent = 5
    /\ moveOut.netRefundable = 15

\* the Rent payments that carry the tenant's id, in list order
OwnRent(t, ps) == SelectSeq(ps, LAMBDA p : p.tenantId = t.id /\ p.type = "Rent")

\* the other payments, in list order
Foreign(t, ps) == SelectSeq(ps, LAMBDA p : ~(p.tenantId = t.id /\ p.type = "Rent"))

(* C6: only the tenant's own Rent payments fund the ledger.  Two payment
   lists that differ only in payments of another tenant or of type Deposit,
   Expense, Equity or Late Fee (added, removed or altered) give the same
   ledger. *)
C6_ForeignPaymentsIgnored ==
    (pc = "again" /\ OwnRent(tenant, payments) = OwnRent(tenant, payments2))
      => ledger2 = ledger

C6_Witness ==
    /\ pc = "again"
    /\ OwnRent(tenant, payments) = OwnRent(tenant, payments2)
    /\ OwnRent(tenant, payments) # <<>>
    /\ Foreign(tenant, payments) # <<>>
    /\ Foreign(tenant, payments2) # <<>>
    /\ Foreign(tenant, payments)[1].type # Foreign(tenant, payments2)[1].type
    /\ ledger2 = ledger

(* C7: pooling is order- and date-independent.  For a fixed tenant and
   current instant, two payment lists whose Rent payments for the tenant have
   the same total give the same ledger, whatever the dates, the order and the
   split of the total. *)
C7_PoolingByTotal ==
    (pc = "again" /\ RentTotal(tenant, payments) = RentTotal(tenant, payments2))
      => ledger2 = ledger

C7_Witness ==
    /\ pc = "again"
    /\ RentTotal(tenant, payments) = RentTotal(tenant, payments2)
    /\ Len(OwnRent(tenant, payments)) = 1
    /\ Len(OwnRent(tenant, payments2)) = 2
    /\ OwnRent(tenant, payments2)[1].date # OwnRent(tenant, payments2)[2].date
    /\ ParseDateString(OwnRent(tenant, payments2)[2].date)
         < ParseDateString(OwnRent(tenant, payments2)[1].date)
    /\ \E i \in 1..Len(ledger) : ledger[i].status = "partial"
    /\ ledger2 = ledger

\* the total of the Equity payments that carry the property's id
RECURSIVE EquityTotal(_, _)
EquityTotal(prop, ps) ==
    IF ps = <<>> THEN 0
    ELSE (IF ps[1].propertyId = prop.id /\ ps[1].type = "Equity"
            THEN ps[1].amount ELSE 0)
           + EquityTotal(prop, Tail(ps))

\* the down payment, 0 when the field is missing
DownPayment(prop) == IF prop.downPayment = <<>> THEN 0 ELSE prop.downPayment[1]

(* C10: equity snapshot.  totalEquityPaid is the down payment (0 if missing)
   plus this property's Equity payments; remainingBalance is
   max(0, purchasePrice - totalEquityPaid); percentPaid is
   min(100, totalEquityPaid / purchasePrice * 100) when purchasePrice > 0 and
   0 otherwise; isFullyPaid is percentPaid >= 100.  A price of 1000 with 200
   down and one Equity payment of 300 gives 500, 50 percent, 500 remaining,
   not fully paid. *)
C10_EquitySnapshot ==
    pc = "property" =>
      LET total == DownPayment(property) + EquityTotal(property, payments)
          price == property.purchasePrice
      IN  /\ propFin.totalEquityPaid = total
          /\ propFin.remainingBalance
               = (IF price - total > 0 THEN price - total ELSE 0)
          /\ price > 0 =>
                /\ total >= price => propFin.percentPaid = <<100, 1>>
                /\ total < price =>
                      propFin.percentPaid[1] * price
                        = total * 100 * propFin.percentPaid[2]
          /\ price <= 0 => propFin.percentPaid = <<0, 1>>
          /\ propFin.isFullyPaid
               <=> propFin.percentPaid[1] >= 100 * propFin.percentPaid[2]
          /\ (price = 1000 /\ total = 500) =>
                /\ propFin.percentPaid = <<50, 1>>
                /\ propFin.remainingBalance = 500
                /\ ~propFin.isFullyPaid

C10_Witness ==
    /\ pc = "property"
    /\ property.purchasePrice = 1000
    /\ property.downPayment = <<200>>
    /\ Len(payments) = 2
    /\ \E i \in 1..2 : payments[i].propertyId = "p2"
    /\ propFin.totalEquityPaid = 500
    /\ propFin.percentPaid = <<50, 1>>
    /\ propFin.remainingBalance = 500
    /\ ~propFin.isFullyPaid

(* C11: equity monotonicity.  For a fixed property, when further payments of
   non-negative amounts are added, totalEquityPaid does not shrink,
   percentPaid does not decrease and never exceeds 100, and remainingBalance
   does not increase and is never negative. *)
C11_EquityMonotonicity ==
    pc = "further" =>
      /\ propFin2.totalEquityPaid >= propFin.totalEquityPaid
      /\ RatLeq(propFin.percentPaid, propFin2.percentPaid)
      /\ propFin.percentPaid[1] <= 100 * propFin.percentPaid[2]
      /\ propFin2.percentPaid[1] <= 100 * propFin2.percentPaid[2]
      /\ propFin2.remainingBalance <= propFin.remainingBalance
      /\ propFin.remainingBalance >= 0
      /\ propFin2.remainingBalance >= 0

\* 200 down and 300 paid on a price of 1000, then 800 more: 50 percent and
\* 500 remaining become 100 percent (of a ratio of 130) and 0 remaining
C11_Witness ==
    /\ pc = "further"
    /\ property.purchasePrice = 1000
    /\ propFin.totalEquityPaid = 500
    /\ propFin.percentPaid = <<50, 1>>
    /\ propFin.remainingBalance = 500
    /\ propFin2.totalEquityPaid = 1300
    /\ propFin2.percentPaid = <<100, 1>>
    /\ propFin2.remainingBalance = 0

\* the market value the snapshot works with: the purchase price when the
\* field is missing or 0
MarketValue(prop) ==
    IF prop.currentMarketValue = <<>> THEN prop.purchasePrice
    ELSE IF prop.currentMarketValue[1] = 0 THEN prop.purchasePrice
    ELSE prop.currentMarketValue[1]

\* the quotient q equals n / d, for d > 0
IsQuotient(q, n, d) == q[2] > 0 /\ q[1] * d = n * q[2]

(* C12: ROI branches.  For a Personal Use property roi is
   (currentVal - purchasePrice) / purchasePrice * 100, 0 when the price is 0,
   and capRate is 0; for any other type roi is
   netIncome / totalEquityPaid * 100, 0 when totalEquityPaid is 0.  Every
   quotient of the result has a non-zero denominator. *)
C12_RoiBranches ==
    pc = "property" =>
      LET price == property.purchasePrice
          total == propFin.totalEquityPaid
      IN  /\ propFin.roi[2] > 0
          /\ propFin.capRate[2] > 0
          /\ propFin.percentPaid[2] > 0
          /\ property.type = "Personal Use" =>
                /\ price # 0 =>
                      IsQuotient(propFin.roi,
                                 (MarketValue(property) - price) * 100, price)
                /\ price = 0 => propFin.roi = <<0, 1>>
                /\ propFin.capRate = <<0, 1>>
          /\ property.type # "Personal Use" =>
                /\ total # 0 =>
                      IsQuotient(propFin.roi, propFin.netIncome * 100, total)
                /\ total = 0 => propFin.roi = <<0, 1>>

\* a personal home bought at 1000 and valued at 1200 gains 20 percent,
\* whatever rent it took in
C12_Witness ==
    /\ pc = "property"
    /\ property.type = "Personal Use"
    /\ property.purchasePrice = 1000
    /\ property.currentMarketValue = <<1200>>
    /\ propFin.totalEquityPaid > 0
    /\ propFin.netIncome = 300
    /\ propFin.roi = <<20, 1>>
    /\ propFin.capRate = <<0, 1>>

(* C13: cap rate of a rental property.  monthsOwned is the whole-month
   difference between purchaseDate and now, at least 1 (so 1 when the
   purchase is in the current month or in the future); capRate is
   (netIncome / monthsOwned * 12) / purchasePrice * 100, and 0 when the
   purchase price is 0. *)
C13_CapRate ==
    (pc = "property" /\ property.type # "Personal Use") =>
      LET price  == property.purchasePrice
          diff   == MonthOf(now) - property.purchaseDate.m
          months == IF diff < 1 THEN 1 ELSE diff
      IN  /\ price # 0 =>
                IsQuotient(propFin.capRate, propFin.netIncome * 12 * 100,
                           months * price)
          /\ price = 0 => propFin.capRate = <<0, 1>>

\* the total over a ledger of amountDue - amountPaid of the installments that
\* are overdue or partial
RECURSIVE OverdueOrPartialTotal(_)
OverdueOrPartialTotal(l) ==
    IF l = <<>> THEN 0
    ELSE (IF l[1].status = "overdue" \/ l[1].status = "partial"
            THEN l[1].amountDue - l[1].amountPaid ELSE 0)
           + OverdueOrPartialTotal(Tail(l))

\* the indices of the active tenants of a list
ActiveIn(tns) == {i \in 1..Len(tns) : tns[i].status = "active"}

\* the sum of f over a finite set of indices
RECURSIVE SumOver(_, _)
SumOver(I, f) ==
    IF I = {} THEN 0
    ELSE LET i == CHOOSE j \in I : TRUE IN f[i] + SumOver(I \ {i}, f)

(* C14: the dashboard's outstandingRent is the sum, over the tenants with
   status active only, of amountDue - amountPaid over the installments of
   their ledgers whose status is overdue or partial; past tenants and pending
   installments contribute nothing. *)
C14_OutstandingRent ==
    pc = "metrics" =>
      metrics.outstandingRent
        = SumOver(ActiveIn(tenants),
                  [i \in 1..Len(tenants) |->
                      OverdueOrPartialTotal(generateLedger(tenants[i], payments))])

\* an active tenant who paid 5 of the rent and a past tenant who paid
\* nothing: only the first one's arrears are counted, without the pending month
C14_Witness ==
    /\ pc = "metrics"
    /\ Len(tenants) = 2
    /\ tenants[1].status = "active"
    /\ tenants[2].status = "past"
    /\ OverdueOrPartialTotal(generateLedger(tenants[2], payments)) > 0
    /\ \E i \in 1..Len(generateLedger(tenants[1], payments)) :
          generateLedger(tenants[1], payments)[i].status = "pending"
    /\ \E i \in 1..Len(generateLedger(tenants[1], payments)) :
          generateLedger(tenants[1], payments)[i].status = "partial"
    /\ metrics.outstandingRent > 0
    /\ metrics.outstandingRent
         = OverdueOrPartialTotal(generateLedger(tenants[1], payments))

(* C15: the dashboard's occupancyRate is the number of tenants with status
   active, over the number of properties whose type is not Personal Use,
   times 100; it is 0 when there is no such property. *)
C15_OccupancyRate ==
    pc = "metrics" =>
      LET active  == Cardinality(ActiveIn(tenants))
          rentals == Cardinality({i \in 1..Len(properties) :
                                     properties[i].type # "Personal Use"})
      IN  /\ rentals # 0 =>
                IsQuotient(metrics.occupancyRate, active * 100, rentals)
          /\ rentals = 0 => metrics.occupancyRate = <<0, 1>>

\* one rentable property of two, two tenants of whom one is active: 100
C15_Witness ==
    /\ pc = "metrics"
    /\ Len(properties) = 2
    /\ \E i \in 1..2 : properties[i].type = "Personal Use"
    /\ Len(tenants) = 2
    /\ Cardinality(ActiveIn(tenants)) = 1
    /\ metrics.occupancyRate = <<100, 1>>

\* the total amount of the payments of a list that carry the month key k and
\* whose type is in the set T
KeyTotal(ps, k, T) ==
    SumOver({i \in 1..Len(ps) : ps[i].monthKey = k /\ ps[i].type \in T},
            [i \in 1..Len(ps) |-> ps[i].amount])

(* C16: chart series.  generateChartData returns exactly 6 entries, one per
   calendar month for the trailing 6 months ending with the current month, in
   chronological order; an entry's Income is the sum of the amounts of the
   payments with that monthKey and a type other than Expense, its Expense the
   sum for type Expense, so Income + Expense is the total of all payments
   carrying that monthKey. *)
C16_ChartSeries ==
    pc = "chart" =>
      /\ Len(chartData) = 6
      /\ \A j \in 1..6 :
            /\ chartData[j].name = KeyOfMonth(MonthOf(now) - 6 + j)
            /\ chartData[j].Income
                 = KeyTotal(payments, chartData[j].name,
                            PaymentTypes \ {"Expense"})
            /\ chartData[j].Expense
                 = KeyTotal(payments, chartData[j].name, {"Expense"})
            /\ chartData[j].Income + chartData[j].Expense
                 = KeyTotal(payments, chartData[j].name, PaymentTypes)
      /\ \A j \in 1..5 : KeyLess(chartData[j].name, chartData[j + 1].name)

\* in the base month the series starts five months earlier, in the year
\* before; an Equity payment counts as Income, an Expense does not
C16_Witness ==
    /\ pc = "chart"
    /\ MonthOf(now) = 0
    /\ chartData[1].name = <<BaseYear - 1, 8>>
    /\ chartData[6].name = <<BaseYear, 1>>
    /\ Len(payments) = 2
    /\ payments[1].type = "Equity"
    /\ payments[2].type = "Expense"
    /\ chartData[6].Income = 7
    /\ chartData[6].Expense = 4

\* the calendar year a date string names
CivilYear(d) == BaseYear + (d.m \div 12)

\* the indices of the payments of a list with a type in T that are dated in
\* the calendar year y
DatedIn(ps, y, T) ==
    {i \in 1..Len(ps) :
        ps[i].date # NoDate /\ CivilYear(ps[i].date) = y /\ ps[i].type \in T}

AmountsOf(ps) == [i \in 1..Len(ps) |-> ps[i].amount]

(* C17: income statement.  generateIncomeStatement(payments, year) considers
   only the payments dated in that calendar year; revenue.Rent,
   revenue.Deposit and revenue.Other are the sums of the Rent, Deposit and
   Late Fee payments, revenue.Total is their sum, totalExpenses is the sum of
   the values of the expenses-by-category map (the Expense payments), Equity
   payments are counted nowhere, and netIncome is revenue.Total minus
   totalExpenses. *)
C17_IncomeStatement ==
    pc = "statement" =>
      LET Sum(T) == SumOver(DatedIn(payments, year, T), AmountsOf(payments))
      IN  /\ statement.revenue.Rent = Sum({"Rent"})
          /\ statement.revenue.Deposit = Sum({"Deposit"})
          /\ statement.revenue.Other = Sum({"Late Fee"})
          /\ statement.revenue.Total
               = statement.revenue.Rent + statement.revenue.Deposit
                   + statement.revenue.Other
          /\ statement.totalExpenses
               = SumOver(DOMAIN statement.expenses, statement.expenses)
          /\ statement.totalExpenses = Sum({"Expense"})
          /\ statement.netIncome
               = statement.revenue.Total - statement.totalExpenses

\* whether a string contains a colon
HasColon(s) == \E i \in 1..Len(s) : s[i] = ":"

\* the text of a string before its first colon, without the blanks around it
LeadingCategory(s) ==
    LET k == CHOOSE i \in 1..Len(s) :
                 s[i] = ":" /\ \A j \in 1..(i - 1) : s[j] # ":"
        I == {i \in 1..(k - 1) : s[i] # " "}
    IN  IF I = {} THEN <<>>
        ELSE SubSeq(s, CHOOSE i \in I : \A j \in I : i <= j,
                       CHOOSE i \in I : \A j \in I : i >= j)

\* the three tiers: the category field, else the "Category:" prefix of the
\* note, else "Uncategorized"
ThreeTierCategory(p) ==
    IF p.expenseCategory # <<>> THEN p.expenseCategory
    ELSE IF HasColon(p.note) THEN LeadingCategory(p.note)
    ELSE <<"Uncategorized">>

(* C18: expense category resolution is three-tier.  An Expense payment of the
   statement is bucketed under its expenseCategory if present; else under the
   leading "Category:" prefix parsed from its note ("Maintenance: pipe fix"
   gives "Maintenance"); else under "Uncategorized". *)
C18_ExpenseCategory ==
    pc = "statement" =>
      LET ys == yearlyPayments(payments, year)
          E  == {i \in 1..Len(ys) : ys[i].type = "Expense"}
      IN  /\ DOMAIN statement.expenses = {ThreeTierCategory(ys[i]) : i \in E}
          /\ \A c \in DOMAIN statement.expenses :
                statement.expenses[c]
                  = SumOver({i \in E : ThreeTierCategory(ys[i]) = c},
                            AmountsOf(ys))

\* the indices of the payments of a list with a parseable date
Parseable(ps) == {i \in 1..Len(ps) : ps[i].date # NoDate}

\* stats lists the periods of the set P once each, strictly descending, and
\* In(k, T) being the payments of period k with a type in T, income is the
\* total of the revenue types, expense that of Expense, net their difference
GroupedBy(stats, P, In(_, _), ps) ==
    /\ {stats[i].period : i \in 1..Len(stats)} = P
    /\ Len(stats) = Cardinality(P)
    /\ \A i \in 1..(Len(stats) - 1) :
          PeriodLess(stats[i + 1].period, stats[i].period)
    /\ \A i \in 1..Len(stats) :
          /\ stats[i].income
               = SumOver(In(stats[i].period, {"Rent", "Deposit", "Late Fee"}),
                         AmountsOf(ps))
          /\ stats[i].expense
               = SumOver(In(stats[i].period, {"Expense"}), AmountsOf(ps))
          /\ stats[i].net = stats[i].income - stats[i].expense

(* C19: monthly/yearly summary.  generateFinancialSummary groups all payments
   with parseable dates by YYYY-MM and by YYYY, with income = Rent + Deposit
   + Late Fee and expense = Expense per bucket and net = income - expense,
   each period appearing once, and both lists sorted strictly descending by
   period label; payments with unparseable dates contribute to no bucket. *)
C19_FinancialSummary ==
    pc = "summary" =>
      LET InMonth(k, T) ==
              {i \in Parseable(payments) :
                  KeyOfMonth(payments[i].date.m) = k /\ payments[i].type \in T}
          InYear(k, T) ==
              {i \in Parseable(payments) :
                  <<CivilYear(payments[i].date)>> = k /\ payments[i].type \in T}
      IN  /\ GroupedBy(summary.monthlyStats,
                       {KeyOfMonth(payments[i].date.m) : i \in Parseable(payments)},
                       InMonth, payments)
          /\ GroupedBy(summary.yearlyStats,
                       {<<CivilYear(payments[i].date)>> : i \in Parseable(payments)},
                       InYear, payments)

\* d is ceil((leaseEnd - today) / 1 day): the least whole number of days
\* that reaches midnight UTC of leaseEnd from today
IsDaysLeft(d, leaseEnd, today) ==
    LET diff == getTime(ParseDateString(leaseEnd)) - getTime(today)
    IN  24 * (d - 1) < diff /\ diff <= 24 * d

(* C20: lease expiration watchlist.  getUpcomingExpirations returns exactly
   the tenants that are active, have a leaseEnd and have 0 <= daysLeft <= 60,
   where daysLeft = ceil((leaseEnd - today) / 1 day); past tenants, tenants
   without leaseEnd, already-expired leases and leases ending more than 60
   days out are excluded; the result is sorted ascending by daysLeft. *)
C20_UpcomingExpirations ==
    pc = "expirations" =>
      LET Upcoming == {i \in 1..Len(tenants) :
                          /\ tenants[i].status = "active"
                          /\ tenants[i].leaseEnd # NoDate
                          /\ \E d \in 0..60 :
                                IsDaysLeft(d, tenants[i].leaseEnd, now)}
      IN  /\ {expirations[j].id : j \in 1..Len(expirations)}
               = {tenants[i].id : i \in Upcoming}
          /\ Len(expirations) = Cardinality(Upcoming)
          /\ \A j \in 1..Len(expirations) :
                /\ IsDaysLeft(expirations[j].daysLeft,
                              expirations[j].leaseEnd, now)
                /\ \E i \in Upcoming :
                      [daysLeft |-> expirations[j].daysLeft] @@ tenants[i]
                        = expirations[j]
          /\ \A j \in 1..(Len(expirations) - 1) :
                expirations[j].daysLeft <= expirations[j + 1].daysLeft

\* of two active tenants the second one's lease ends sooner and comes first;
\* the first one's ends exactly sixty days out
C20_Witness ==
    /\ pc = "expirations"
    /\ Len(tenants) = 2
    /\ Len(expirations) = 2
    /\ expirations[1].id = tenants[2].id
    /\ expirations[1].daysLeft < expirations[2].daysLeft
    /\ expirations[2].daysLeft = 60

\* what the caller of generateLedger would receive in place of a result
InvalidInputError == [error |-> "InvalidInputError"]

(* C21: invalid core input is signalled, not zeroed.  Calling generateLedger
   (and the functions built on it) with a tenant that lacks a usable
   lease-start date surfaces an InvalidInputError to the caller, not an empty
   ledger or a zero unpaid rent. *)
C21_InvalidInputSignalled ==
    (pc = "lease" /\ tenant.leaseStart = NoDate) =>
      /\ ledger = InvalidInputError
      /\ moveOut = InvalidInputError

(* C22: zero-length lease.  When the first day of the leaseStart month is
   after the computed end pointer (an active tenant whose lease starts more
   than one month in the future, a past tenant whose leaseEnd precedes
   leaseStart), generateLedger returns an empty ledger, and unpaidRent and
   the tenant's outstanding contribution are 0. *)
C22_ZeroLengthLease ==
    (/\ pc = "lease"
     /\ tenant.leaseStart # NoDate
     /\ MkDate(tenant.leaseStart.m, 1, 0) > endPointer(tenant, now)) =>
      /\ ledger = <<>>
      /\ moveOut.unpaidRent = 0
      /\ (tenant.status = "active" => metrics.outstandingRent = 0)
      /\ outstandingOfLedger(ledger) = 0

\* an active tenant whose lease starts two months after the clock's month,
\* with rent already paid: nothing is due
C22_Witness ==
    /\ pc = "lease"
    /\ tenant.status = "active"
    /\ tenant.leaseStart = DateString(MaxMonth, 1)
    /\ MonthOf(now) = MaxMonth - 2
    /\ Len(payments) > 0
    /\ totalPaidPool(tenant, payments) > 0
    /\ ledger = <<>>
    /\ moveOut.unpaidRent = 0
    /\ metrics.outstandingRent = 0

(* C23: idempotence, no hidden state.  Calling any engine function twice
   with identical inputs yields identical output, and no call mutates the
   tenant, property or payment collections passed to it. *)
C23_Idempotence ==
    pc = "twice" =>
      /\ outputs2.result = outputs.result
      /\ payments = payments2
      /\ tenants = <<tenant>>
      /\ properties = <<property>>

(* C23, amended: the clock is an input too.  Two calls with identical
   arguments at the same reading of the clock yield identical output;
   generateIncomeStatement and generateFinancialSummary, and the ledger and
   move-out figures of a past tenant with a leaseEnd, yield identical output
   at any two times; no call mutates the collections passed to it. *)
C23_IdempotenceAtOneInstant ==
    pc = "twice" =>
      /\ outputs2.at = outputs.at => outputs2.result = outputs.result
      /\ outputs2.result.statement = outputs.result.statement
      /\ outputs2.result.summary = outputs.result.summary
      /\ (tenant.status = "past" /\ HasLeaseEnd(tenant)) =>
            /\ outputs2.result.ledger = outputs.result.ledger
            /\ outputs2.result.moveOut = outputs.result.moveOut
      /\ payments = payments2
      /\ tenants = <<tenant>>
      /\ properties = <<property>>

\* the second call came a month later, on payments that were not in date
\* order: the ledger has grown, the statement is the same, the payments are
\* in the order they were passed in
C23_Witness ==
    /\ pc = "twice"
    /\ MonthOf(outputs2.at) > MonthOf(outputs.at)
    /\ Len(outputs2.result.ledger) > Len(outputs.result.ledger)
    /\ outputs2.result.statement = outputs.result.statement
    /\ Len(payments) = 2
    /\ SortByDate(payments) # payments
    /\ payments = payments2

\* the handlers that add, update or delete records
CrudHandlers ==
    {"handlePropSubmit", "handleDelete", "handleTenantSubmit",
     "handleDeleteTenant", "handlePaymentSubmit", "handleDeletePayment",
     "handleMoveOutSubmit"}

(* C24: persistence keeps up with CRUD.  After every add/update/delete
   operation on properties, tenants or payments (and after any sequence of
   them), the persisted snapshot equals the in-memory application state, and a
   subsequent loadState returns the same properties, tenants and payments. *)
C24_PersistenceKeepsUp ==
    pc \in CrudHandlers =>
      /\ localStorage = stringify(state)
      /\ loadState(localStorage) = state

\* the loaded value v of an optional number whose value in memory is x
SameOrDefaulted(v, x) == v = x \/ (x = <<>> /\ v = <<0>>)

(* C24, amended: after every add/update/delete operation whose write the
   storage accepted, the persisted snapshot equals the in-memory state, and a
   subsequent loadState returns the same tenants and payments and the same
   properties, except that a downPayment, monthlyAmortization or
   currentMarketValue that is absent in memory is loaded as 0. *)
C24_PersistenceUpToDefaults ==
    (pc \in CrudHandlers /\ ~saveFailed) =>
      /\ localStorage = stringify(state)
      /\ LET loaded == loadState(localStorage)
         IN  /\ loaded.tenants = state.tenants
             /\ loaded.payments = state.payments
             /\ Len(loaded.properties) = Len(state.properties)
             /\ \A i \in 1..Len(state.properties) :
                   LET l == loaded.properties[i]
                       m == state.properties[i]
                   IN  /\ l.id = m.id /\ l.type = m.type
                       /\ l.purchasePrice = m.purchasePrice
                       /\ l.purchaseDate = m.purchaseDate
                       /\ SameOrDefaulted(l.downPayment, m.downPayment)
                       /\ SameOrDefaulted(l.monthlyAmortization,
                                          m.monthlyAmortization)
                       /\ SameOrDefaulted(l.currentMarketValue,
                                          m.currentMarketValue)

\* a property was edited on the first run, where the seed's property has no
\* currentMarketValue: both writes of the handler were accepted, the snapshot
\* is the state, and the seed property that is still in the list is loaded
\* with a value of 0
C24_Witness ==
    /\ pc = "handlePropSubmit"
    /\ formData.isEditing
    /\ ~saveFailed
    /\ localStorage = stringify(state)
    /\ state.properties[1].currentMarketValue = <<>>
    /\ loadState(localStorage).properties[1].currentMarketValue = <<0>>
    /\ loadState(localStorage).payments = state.payments

\* the list ps holds a payment of the tenant with this type, amount and date
HasTransaction(ps, tid, type, amt, date) ==
    \E i \in 1..Len(ps) :
        /\ ps[i].tenantId = tid /\ ps[i].type = type
        /\ ps[i].amount = amt /\ ps[i].date = date

\* the state s holds what the move-out of the tenant t with this form wrote
MoveOutApplied(s, t, form) ==
    /\ form.finalRefundAmount > 0 =>
          HasTransaction(s.payments, t.id, "Expense", form.finalRefundAmount,
                         form.terminationDate)
    /\ form.finalRefundAmount < 0 =>
          HasTransaction(s.payments, t.id, "Rent", 0 - form.finalRefundAmount,
                         form.terminationDate)
    /\ form.deductions > 0 =>
          HasTransaction(s.payments, t.id, "Expense", form.deductions,
                         form.terminationDate)
    /\ \E i \in 1..Len(s.tenants) :
          /\ s.tenants[i].id = t.id
          /\ s.tenants[i].status = "past"
          /\ s.tenants[i].leaseEnd = form.terminationDate

(* C25: the move-out commit applies all of its writes.  When
   handleMoveOutSubmit runs with processRefund enabled and a non-zero final
   refund amount, the resulting state, in memory and persisted, contains the
   generated transaction (an Expense refund if the amount is positive, a Rent
   settlement of its absolute value if negative, plus a deduction record when
   deductions > 0) and the tenant with status past and leaseEnd = the
   termination date. *)
C25_MoveOutCommit ==
    (/\ pc = "handleMoveOutSubmit"
     /\ formData.processRefund
     /\ formData.finalRefundAmount # 0) =>
      /\ MoveOutApplied(state, tenant, formData)
      /\ ~saveFailed => MoveOutApplied(localStorage, tenant, formData)

(* C26: property ids stay unique.  After submitting an edit of an existing
   property, and after any sequence of add/edit/delete operations, the
   property list contains at most one property per id, and after an edit that
   property carries the edited values. *)
C26_PropertyIdsUnique ==
    pc \in {"handlePropSubmit", "handleDelete"} =>
      /\ \A i, j \in 1..Len(state.properties) :
            state.properties[i].id = state.properties[j].id => i = j
      /\ (pc = "handlePropSubmit" /\ formData.isEditing) =>
            \A i \in 1..Len(state.properties) :
                state.properties[i].id = formData.id =>
                  state.properties[i] = property

(* C30: occupancy is a percentage.  For every reachable combination of
   properties and tenants (any number of active tenants per property, tenants
   attached to Personal Use or deleted properties), the occupancyRate of
   calculateMetrics lies between 0 and 100 inclusive. *)
C30_OccupancyIsPercentage ==
    pc = "Dashboard" =>
      /\ RatLeq(<<0, 1>>, metrics.occupancyRate)
      /\ RatLeq(metrics.occupancyRate, <<100, 1>>)

(* C27: allocation bounds.  For every tenant with rentAmount >= 0 and
   payments with amount >= 0, every installment returned by generateLedger
   satisfies 0 <= amountPaid <= amountDue, so the un-clamped sum of
   (amountDue - amountPaid) equals the sum of max(0, amountDue - amountPaid)
   and unpaidRent is never negative. *)
C27_AllocationBounds ==
    pc = "moveOut" =>
      /\ \A i \in 1..Len(ledger) :
            /\ 0 <= ledger[i].amountPaid
            /\ ledger[i].amountPaid <= ledger[i].amountDue
      /\ SumOver(1..Len(ledger),
                 [i \in 1..Len(ledger) |->
                     ledger[i].amountDue - ledger[i].amountPaid])
           = ShortfallTotal(ledger)
      /\ moveOut.unpaidRent >= 0

\* the tenant paid more rent than two months' installments come to: each
\* installment is paid up to its amount and nothing is owed
C27_Witness ==
    /\ pc = "moveOut"
    /\ Len(ledger) = 2
    /\ tenant.rentAmount > 0
    /\ RentTotal(tenant, payments) > 2 * tenant.rentAmount
    /\ \A i \in 1..2 : ledger[i].amountPaid = ledger[i].amountDue
    /\ moveOut.unpaidRent = 0

\* the total of amountDue over the installments of a ledger with this status
DueTotalOf(l, status) ==
    SumOver({i \in 1..Len(l) : l[i].status = status},
            [i \in 1..Len(l) |-> l[i].amountDue])

(* C28: move-out shortfall versus dashboard outstanding.  For an active
   tenant, the unpaidRent of calculateMoveOutFinancials minus the tenant's
   contribution to the outstandingRent of calculateMetrics equals the sum of
   amountDue over the tenant's pending installments: unpaidRent also charges
   the installments that are not yet due, the projected one of next month
   included, and outstandingRent does not. *)
C28_ShortfallVersusOutstanding ==
    (pc = "lease" /\ tenant.status = "active") =>
      moveOut.unpaidRent - metrics.outstandingRent
        = DueTotalOf(ledger, "pending")

\* an active tenant who paid part of the first month: that month is partial
\* and counts in both figures, the months not yet due count in unpaidRent
\* only
C28_Witness ==
    /\ pc = "lease"
    /\ tenant.status = "active"
    /\ \E i \in 1..Len(ledger) : ledger[i].status = "partial"
    /\ \E i \in 1..Len(ledger) : ledger[i].status = "pending"
    /\ metrics.outstandingRent > 0
    /\ moveOut.unpaidRent - metrics.outstandingRent >= tenant.rentAmount
    /\ ledger[1].status = "pending"
    /\ MonthOfKey(ledger[1].monthKey) = MonthOf(now) + 1

\* the entries of a list of period statistics whose period begins with year y
EntriesOfYear(stats, y) == {i \in 1..Len(stats) : stats[i].period[1] = y}

(* C29: report consistency.  For every payment list and every year Y, the
   revenue.Total, totalExpenses and netIncome of generateIncomeStatement(
   payments, Y) equal the income, expense and net of the yearlyStats entry for
   Y of generateFinancialSummary(payments) (zeros when there is no such
   entry), and each yearly entry equals the sum of the monthlyStats entries
   whose period starts with that year. *)
C29_ReportConsistency ==
    pc = "reports" =>
      LET yearly  == summary.yearlyStats
          monthly == summary.monthlyStats
          ofYear  == EntriesOfYear(yearly, year)
      IN  /\ Cardinality(ofYear) <= 1
          /\ \A i \in ofYear :
                /\ statement.revenue.Total = yearly[i].income
                /\ statement.totalExpenses = yearly[i].expense
                /\ statement.netIncome = yearly[i].net
          /\ ofYear = {} =>
                /\ statement.revenue.Total = 0
                /\ statement.totalExpenses = 0
                /\ statement.netIncome = 0
          /\ \A i \in 1..Len(yearly) :
                LET months == EntriesOfYear(monthly, yearly[i].period[1])
                IN  /\ yearly[i].income
                         = SumOver(months, [j \in 1..Len(monthly) |->
                                               monthly[j].income])
                    /\ yearly[i].expense
                         = SumOver(months, [j \in 1..Len(monthly) |->
                                               monthly[j].expense])
                    /\ yearly[i].net
                         = SumOver(months, [j \in 1..Len(monthly) |->
                                               monthly[j].net])

\* rent in two months of the selected year: the statement and the year's
\* entry both show the total of the two monthly entries
C29_Witness ==
    /\ pc = "reports"
    /\ Cardinality(EntriesOfYear(summary.monthlyStats, year)) = 2
    /\ \E i \in 1..Len(summary.yearlyStats) :
          /\ summary.yearlyStats[i].period = <<year>>
          /\ summary.yearlyStats[i].income = 16
          /\ statement.revenue.Total = 16

====
